---------------------------- MODULE Spec2Model ----------------------------
(***************************************************************************)
(* A model of the apix integration-test application: the signing client    *)
(* (src/src/client.ts), the application server (src/src/server.ts, with    *)
(* its earlier revision src/unnamed/part_000) and the request pipeline of  *)
(* the framework the server is built on.                                   *)
(*                                                                         *)
(* Strings are sequences of UTF-16 code units (natural numbers), so that   *)
(* concatenation, sorting, splitting and encoding are computed and not     *)
(* assumed.  Time is counted in ticks of five seconds.                     *)
(***************************************************************************)
EXTENDS Integers, Sequences, FiniteSets, TLC

(***************************************************************************)
(* Bounds of the model.                                                    *)
(***************************************************************************)
MaxTime == 2
MaxRequests == 2
MaxDeliveries == 3
MaxSequence == 3
MaxCalls == 5

(***************************************************************************)
(* String literals of the sources, as code units.                          *)
(***************************************************************************)
S_myKey == <<109, 121, 75, 101, 121>>  \* "myKey"
S_key == <<107, 101, 121>>  \* "key"
S_value == <<118, 97, 108, 117, 101>>  \* "value"
S_quoteId == <<113, 117, 111, 116, 101, 73, 100>>  \* "quoteId"
S_content == <<99, 111, 110, 116, 101, 110, 116>>  \* "content"
S_author == <<97, 117, 116, 104, 111, 114>>  \* "author"
S_date == <<100, 97, 116, 101>>  \* "date"
S_username == <<117, 115, 101, 114, 110, 97, 109, 101>>  \* "username"
S_password == <<112, 97, 115, 115, 119, 111, 114, 100>>  \* "password"
S_GET == <<71, 69, 84>>  \* "GET"
S_PUT == <<80, 85, 84>>  \* "PUT"
S_POST == <<80, 79, 83, 84>>  \* "POST"
S_DELETE == <<68, 69, 76, 69, 84, 69>>  \* "DELETE"
S_add == <<97, 100, 100>>  \* "add"
S_delete == <<100, 101, 108, 101, 116, 101>>  \* "delete"
S_cachePrefix == <<47, 99, 97, 99, 104, 101, 47>>  \* "/cache/"
S_quotesPrefix == <<47, 113, 117, 111, 116, 101, 115, 47>>  \* "/quotes/"
S_login == <<47, 108, 111, 103, 105, 110>>  \* "/login"
S_quoteColon == <<113, 117, 111, 116, 101, 58>>  \* "quote:"
S_newb == <<110, 101, 119, 98>>  \* "newb"
S_owner == <<97, 112, 105, 120, 64, 101, 118, 111, 108, 117, 116, 105, 46, 117, 115>>  \* "apix@evoluti.us"
S_invalidSignature == <<105, 110, 118, 97, 108, 105, 100, 83, 105, 103, 110, 97, 116, 117, 114, 101>>  \* "invalidSignature"
S_datePrefix == <<84, 104, 117, 44, 32, 48, 49, 32, 74, 97, 110, 32, 49, 57, 55, 48, 32, 48, 48, 58, 48, 48, 58>>  \* "Thu, 01 Jan 1970 00:00:"
S_GMT == <<32, 71, 77, 84>>  \* " GMT"
S_Bearer == <<66, 101, 97, 114, 101, 114>>  \* "Bearer"
S_ownerUserId == <<111, 119, 110, 101, 114, 85, 115, 101, 114, 73, 100>>  \* "ownerUserId"
S_a == <<97>>  \* "a"
S_search == <<115, 101, 97, 114, 99, 104>>  \* "search"
S_searchTerm == <<115, 101, 97, 114, 99, 104, 84, 101, 114, 109>>  \* "searchTerm"
S_sortKey == <<115, 111, 114, 116, 75, 101, 121>>  \* "sortKey"
S_ascendingSort == <<97, 115, 99, 101, 110, 100, 105, 110, 103, 83, 111, 114, 116>>  \* "ascendingSort"
S_sortBy == <<115, 111, 114, 116, 66, 121>>  \* "sortBy"
S_true == <<116, 114, 117, 101>>  \* "true"
S_false == <<102, 97, 108, 115, 101>>  \* "false"
S_b == <<98>>  \* "b"

(***************************************************************************)
(* JavaScript values.  undefined is a record of its own; a JSON value is a *)
(* number, a string or an object, an object being the sequence of its      *)
(* properties in insertion order.                                          *)
(***************************************************************************)
Undefined == [t |-> "undefined"]
JNum(n) == [t |-> "num", v |-> n]
JStr(s) == [t |-> "str", v |-> s]
JObj(props) == [t |-> "obj", v |-> props]
Prop(k, v) == [k |-> k, v |-> v]

IsObject(x) == x.t = "obj"

\* Object.keys(o): the own property names, in insertion order.
ObjectKeys(o) == [i \in 1..Len(o.v) |-> o.v[i].k]

HasProp(o, k) == \E i \in 1..Len(o.v) : o.v[i].k = k

\* o[k]: the value of property k, undefined when o has none.
GetProp(o, k) ==
  IF HasProp(o, k)
    THEN o.v[CHOOSE i \in 1..Len(o.v) : o.v[i].k = k].v
    ELSE Undefined

(***************************************************************************)
(* String helpers.                                                         *)
(***************************************************************************)
Min(a, b) == IF a < b THEN a ELSE b

\* s < t in the order of Array.prototype.sort without a comparator: by
\* UTF-16 code units, a proper prefix first.
StrLess(s, t) ==
  \E i \in 1..(Min(Len(s), Len(t)) + 1) :
    /\ \A j \in 1..(i - 1) : s[j] = t[j]
    /\ \/ i = Len(s) + 1 /\ i <= Len(t)
       \/ i <= Len(s) /\ i <= Len(t) /\ s[i] < t[i]

RECURSIVE Insert(_, _)
Insert(sorted, k) ==
  IF sorted = <<>> THEN <<k>>
  ELSE IF StrLess(k, Head(sorted)) THEN <<k>> \o sorted
  ELSE <<Head(sorted)>> \o Insert(Tail(sorted), k)

SortKeys_InsertionOrder(keys) == keys

\* keys.sort()
RECURSIVE SortKeys(_)
SortKeys(keys) ==
  IF keys = <<>> THEN <<>> ELSE Insert(SortKeys(Tail(keys)), Head(keys))

\* `${n}` for a non-negative integer n.
RECURSIVE Decimal(_)
Decimal(n) ==
  IF n < 10 THEN <<48 + n>> ELSE Decimal(n \div 10) \o <<48 + (n % 10)>>

\* String.prototype.toLowerCase on the ASCII letters.
ToLowerCase(s) ==
  [i \in 1..Len(s) |-> IF s[i] >= 65 /\ s[i] <= 90 THEN s[i] + 32 ELSE s[i]]

HasPrefix(s, p) == Len(s) >= Len(p) /\ SubSeq(s, 1, Len(p)) = p

DropPrefix(s, p) == SubSeq(s, Len(p) + 1, Len(s))

RECURSIVE Join(_, _)
Join(parts, sep) ==
  IF parts = <<>> THEN <<>>
  ELSE IF Len(parts) = 1 THEN parts[1]
  ELSE parts[1] \o sep \o Join(Tail(parts), sep)

\* s.toLowerCase().includes(sub.toLowerCase()) is Includes of the lowered.
Includes(s, sub) ==
  \E i \in 0..(Len(s) - Len(sub)) : SubSeq(s, i + 1, i + Len(sub)) = sub

\* The position of the first occurrence of code unit c in s, Len(s) + 1 when
\* there is none.
IndexOf(s, c) ==
  IF \E i \in 1..Len(s) : s[i] = c
    THEN CHOOSE i \in 1..Len(s) : s[i] = c /\ \A j \in 1..(i - 1) : s[j] # c
    ELSE Len(s) + 1

\* s.split(c)
RECURSIVE Split(_, _)
Split(s, c) ==
  IF IndexOf(s, c) > Len(s) THEN <<s>>
  ELSE <<SubSeq(s, 1, IndexOf(s, c) - 1)>>
         \o Split(SubSeq(s, IndexOf(s, c) + 1, Len(s)), c)

(***************************************************************************)
(* URLs, of ASCII characters.  A URL that begins with '/' is one written   *)
(* without its scheme and host: the pathname and, after a '?', the query   *)
(* string, which is also what the server is sent.                          *)
(***************************************************************************)
\* What follows scheme and authority: the request target.
RequestTarget(url) ==
  IF url # <<>> /\ Head(url) = 47 THEN url
  ELSE LET rest == SubSeq(url, IndexOf(url, 58) + 3, Len(url))  \* after '://'
           start == Min(IndexOf(rest, 47), Min(IndexOf(rest, 63), IndexOf(rest, 35)))
       IN IF start > Len(rest) \/ rest[start] # 47
            THEN <<47>> \o SubSeq(rest, start, Len(rest))
            ELSE SubSeq(rest, start, Len(rest))

\* The code units a URL parser writes as %XX in a path.
HexDigit(n) == IF n < 10 THEN 48 + n ELSE 55 + n

EncodedInPath(c) ==
  c <= 32 \/ c = 34 \/ c = 60 \/ c = 62 \/ c = 96 \/ c = 123 \/ c = 125 \/ c = 127

PercentEncoded(c) ==
  IF EncodedInPath(c) THEN <<37, HexDigit(c \div 16), HexDigit(c % 16)>>
  ELSE <<c>>

RECURSIVE PercentEncode(_)
PercentEncode(s) ==
  IF s = <<>> THEN <<>> ELSE PercentEncoded(Head(s)) \o PercentEncode(Tail(s))

\* The segments of a path as the URL parser keeps them: '.' is dropped and
\* '..' drops the segment before it; either, as last segment, leaves an
\* empty one.
RECURSIVE PathSegments(_, _)
PathSegments(segments, kept) ==
  IF segments = <<>> THEN kept
  ELSE LET segment == Head(segments)
           last == Len(segments) = 1
           dots == segment \in {<<46>>, <<46, 46>>}
           before == IF segment = <<46, 46>> /\ kept # <<>>
                       THEN SubSeq(kept, 1, Len(kept) - 1)
                       ELSE kept
       IN PathSegments(Tail(segments),
                       IF dots THEN (IF last THEN Append(before, <<>>) ELSE before)
                       ELSE Append(kept, PercentEncode(segment)))

\* new URL(url).pathname
Pathname(url) ==
  LET target == RequestTarget(url)
      path == SubSeq(target, 1,
                     Min(IndexOf(target, 63), IndexOf(target, 35)) - 1)
  IN IF \A i \in DOMAIN path : path[i] # 46 /\ ~EncodedInPath(path[i])
       THEN path
       ELSE <<47>> \o Join(PathSegments(Split(Tail(path), 47), <<>>), <<47>>)

\* extractPathFromUrl(url)
ExtractPathFromUrl_WithQuery(url) == RequestTarget(url)

ExtractPathFromUrl(url) == Pathname(url)

\* The query string of a URL, without its '?'.
QueryString(url) ==
  SubSeq(url, IndexOf(url, 63) + 1, IndexOf(url, 35) - 1)

\* The query of a URL as the server reads it: its name=value pairs, in the
\* order of the URL.
ParseQuery(url) ==
  IF QueryString(url) = <<>> THEN <<>>
  ELSE LET pairs == Split(QueryString(url), 38)
       IN [i \in DOMAIN pairs |->
             [name |-> SubSeq(pairs[i], 1, IndexOf(pairs[i], 61) - 1),
              value |-> SubSeq(pairs[i], IndexOf(pairs[i], 61) + 1,
                               Len(pairs[i]))]]

(***************************************************************************)
(* JSON.stringify(value, replacerArray).  With an array as replacer the    *)
(* array is the property list of EVERY object that is serialized, at every *)
(* depth: a property is written only if its name is in the array.          *)
(***************************************************************************)
\* QuoteJSONString: the quote and the backslash are escaped.
RECURSIVE EscapeJson(_)
EscapeJson(s) ==
  IF s = <<>> THEN <<>>
  ELSE (IF Head(s) = 34 \/ Head(s) = 92 THEN <<92, Head(s)>> ELSE <<Head(s)>>)
         \o EscapeJson(Tail(s))

QuoteJson(s) == <<34>> \o EscapeJson(s) \o <<34>>

RECURSIVE JsonStringify(_, _)
RECURSIVE StringifyProps(_, _, _)
StringifyProps(o, allow, first) ==
  IF allow = <<>> THEN <<>>
  ELSE IF HasProp(o, Head(allow))
    THEN (IF first THEN <<>> ELSE <<44>>)
           \o QuoteJson(Head(allow)) \o <<58>>
           \o JsonStringify(GetProp(o, Head(allow)), allow)
           \o StringifyProps(o, Tail(allow), FALSE)
    ELSE StringifyProps(o, Tail(allow), first)

JsonStringify(x, allow) ==
  CASE x.t = "null" -> <<110, 117, 108, 108>>  \* "null"
    [] x.t = "num" -> Decimal(x.v)
    [] x.t = "str" -> QuoteJson(x.v)
    [] x.t = "obj" -> <<123>> \o StringifyProps(x, allow, TRUE) \o <<125>>

(***************************************************************************)
(* Buffer.from(text, 'binary').toString('base64').  The 'binary' (latin1)  *)
(* encoding keeps the low byte of every code unit.                         *)
(***************************************************************************)
BinaryBytes(text) == [i \in 1..Len(text) |-> text[i] % 256]

Base64Char(n) ==
  IF n < 26 THEN 65 + n
  ELSE IF n < 52 THEN 97 + (n - 26)
  ELSE IF n < 62 THEN 48 + (n - 52)
  ELSE IF n = 62 THEN 43
  ELSE 47

RECURSIVE Base64(_)
Base64(bytes) ==
  IF bytes = <<>> THEN <<>>
  ELSE IF Len(bytes) = 1 THEN
    << Base64Char(bytes[1] \div 4), Base64Char((bytes[1] % 4) * 16), 61, 61 >>
  ELSE IF Len(bytes) = 2 THEN
    << Base64Char(bytes[1] \div 4),
       Base64Char((bytes[1] % 4) * 16 + bytes[2] \div 16),
       Base64Char((bytes[2] % 16) * 4), 61 >>
  ELSE
    << Base64Char(bytes[1] \div 4),
       Base64Char((bytes[1] % 4) * 16 + bytes[2] \div 16),
       Base64Char((bytes[2] % 16) * 4 + bytes[3] \div 64),
       Base64Char(bytes[3] % 64) >>
      \o Base64(SubSeq(bytes, 4, Len(bytes)))

(***************************************************************************)
(* The signature.  HMAC-SHA256 is taken as an ideal keyed function: the    *)
(* digest of (key, message) is determined by the pair and by nothing else, *)
(* and two different pairs never share a digest.                           *)
(***************************************************************************)
Hmac(key, message) == [alg |-> "hmac-sha256", key |-> key, msg |-> message]

\* A signature header that is some text and no digest.
RawSignature(text) == [alg |-> "none", text |-> text]

\* The canonical message of generateSignature.
CanonicalMessage(endpointPath, dateString, nonce, method, httpBody) ==
  LET body == IF httpBody = Undefined THEN JObj(<<>>) ELSE httpBody
      stringifiedJsonBody ==
        IF Len(ObjectKeys(body)) > 0
          THEN JsonStringify(body, SortKeys(ObjectKeys(body)))
          ELSE <<>>
      httpBodyBase64 ==
        IF Len(stringifiedJsonBody) > 0
          THEN Base64(BinaryBytes(stringifiedJsonBody))
          ELSE <<>>
  IN Join(<<endpointPath, method, nonce, dateString, httpBodyBase64>>, <<46>>)

GenerateSignature(key, endpointPath, dateString, nonce, method, httpBody) ==
  Hmac(key, CanonicalMessage(endpointPath, dateString, nonce, method, httpBody))

(***************************************************************************)
(* Configuration of the deployment (process.env) and the clock.            *)
(***************************************************************************)
API_KEY == <<97, 112, 105, 75>>  \* "apiK"
APP_KEY == <<97, 112, 112, 75>>  \* "appK"
USERNAME == S_owner
PASSWORD == <<112, 119>>  \* "pw"
JWT_KEY == <<106, 119, 116, 75>>  \* "jwtK"

\* An API key no application holds, and a JWT key that is not the server's.
OTHER_API_KEY == <<97, 112, 105, 88>>  \* "apiX"
OTHER_JWT_KEY == <<106, 119, 116, 88>>  \* "jwtX"

\* expiresIn: '1h', in ticks of five seconds.
TokenLifetime == 720

\* setTimeout(resolve, 10000) of the 'Old requests are rejected' test, in ticks.
OldRequestDelay == 2

\* The freshness window, in ticks: strictly shorter than OldRequestDelay.
FreshnessWindow == 1

Null == [t |-> "null"]

\* date.toUTCString() of the instant `tick`, and its Date.parse.
HttpDate(tick) ==
  S_datePrefix \o <<48 + ((5 * tick) \div 10), 48 + ((5 * tick) % 10)>> \o S_GMT

ParseHttpDate(dateString) ==
  ((dateString[Len(S_datePrefix) + 1] - 48) * 10
     + (dateString[Len(S_datePrefix) + 2] - 48)) \div 5

(***************************************************************************)
(* The initial quotes of QUOTES.                                           *)
(***************************************************************************)
\* 0: I think, therefore I am. (Ren? Descartes, 1637)
Q0_content ==
    <<73, 32, 116, 104, 105, 110, 107, 44, 32, 116, 104, 101, 114, 101,
    102, 111, 114, 101, 32, 73, 32, 97, 109, 46>>
Q0_author ==
    <<82, 101, 110, 233, 32, 68, 101, 115, 99, 97, 114, 116, 101, 115>>
Q0_date ==
    <<49, 54, 51, 55>>
\* 1: The only thing we have to fear is fear itself. (Franklin D. Roosevelt, March 4, 1933)
Q1_content ==
    <<84, 104, 101, 32, 111, 110, 108, 121, 32, 116, 104, 105, 110, 103,
    32, 119, 101, 32, 104, 97, 118, 101, 32, 116, 111, 32, 102, 101, 97,
    114, 32, 105, 115, 32, 102, 101, 97, 114, 32, 105, 116, 115, 101, 108,
    102, 46>>
Q1_author ==
    <<70, 114, 97, 110, 107, 108, 105, 110, 32, 68, 46, 32, 82, 111, 111,
    115, 101, 118, 101, 108, 116>>
Q1_date ==
    <<77, 97, 114, 99, 104, 32, 52, 44, 32, 49, 57, 51, 51>>
\* 2: To be, or not to be, that is the question. (William Shakespeare, 1600)
Q2_content ==
    <<84, 111, 32, 98, 101, 44, 32, 111, 114, 32, 110, 111, 116, 32, 116,
    111, 32, 98, 101, 44, 32, 116, 104, 97, 116, 32, 105, 115, 32, 116,
    104, 101, 32, 113, 117, 101, 115, 116, 105, 111, 110, 46>>
Q2_author ==
    <<87, 105, 108, 108, 105, 97, 109, 32, 83, 104, 97, 107, 101, 115, 112,
    101, 97, 114, 101>>
Q2_date ==
    <<49, 54, 48, 48>>
\* 3: The unexamined life is not worth living. (Socrates, 399 BCE)
Q3_content ==
    <<84, 104, 101, 32, 117, 110, 101, 120, 97, 109, 105, 110, 101, 100,
    32, 108, 105, 102, 101, 32, 105, 115, 32, 110, 111, 116, 32, 119, 111,
    114, 116, 104, 32, 108, 105, 118, 105, 110, 103, 46>>
Q3_author ==
    <<83, 111, 99, 114, 97, 116, 101, 115>>
Q3_date ==
    <<51, 57, 57, 32, 66, 67, 69>>
\* 4: Give me liberty, or give me death! (Patrick Henry, March 23, 1775)
Q4_content ==
    <<71, 105, 118, 101, 32, 109, 101, 32, 108, 105, 98, 101, 114, 116,
    121, 44, 32, 111, 114, 32, 103, 105, 118, 101, 32, 109, 101, 32, 100,
    101, 97, 116, 104, 33>>
Q4_author ==
    <<80, 97, 116, 114, 105, 99, 107, 32, 72, 101, 110, 114, 121>>
Q4_date ==
    <<77, 97, 114, 99, 104, 32, 50, 51, 44, 32, 49, 55, 55, 53>>
\* 5: Hisashiburi da na, Mugiwara. (Crocodile, 800 PVC)
Q5_content ==
    <<72, 105, 115, 97, 115, 104, 105, 98, 117, 114, 105, 32, 100, 97, 32,
    110, 97, 44, 32, 77, 117, 103, 105, 119, 97, 114, 97, 46>>
Q5_author ==
    <<67, 114, 111, 99, 111, 100, 105, 108, 101>>
Q5_date ==
    <<56, 48, 48, 32, 80, 86, 67>>
\* 6: Injustice anywhere is a thread to justice every... (Martin Luther King Jr., April 16, 1963)
Q6_content ==
    <<73, 110, 106, 117, 115, 116, 105, 99, 101, 32, 97, 110, 121, 119,
    104, 101, 114, 101, 32, 105, 115, 32, 97, 32, 116, 104, 114, 101, 97,
    100, 32, 116, 111, 32, 106, 117, 115, 116, 105, 99, 101, 32, 101, 118,
    101, 114, 121, 119, 104, 101, 114, 101, 46>>
Q6_author ==
    <<77, 97, 114, 116, 105, 110, 32, 76, 117, 116, 104, 101, 114, 32, 75,
    105, 110, 103, 32, 74, 114, 46>>
Q6_date ==
    <<65, 112, 114, 105, 108, 32, 49, 54, 44, 32, 49, 57, 54, 51>>
\* 7: I went to the woods because I wished to live de... (Henry David Thoreau, 1854)
Q7_content ==
    <<73, 32, 119, 101, 110, 116, 32, 116, 111, 32, 116, 104, 101, 32, 119,
    111, 111, 100, 115, 32, 98, 101, 99, 97, 117, 115, 101, 32, 73, 32,
    119, 105, 115, 104, 101, 100, 32, 116, 111, 32, 108, 105, 118, 101, 32,
    100, 101, 108, 105, 98, 101, 114, 97, 116, 101, 108, 121, 44, 32, 116,
    111, 32, 102, 114, 111, 110, 116, 32, 111, 110, 108, 121, 32, 116, 104,
    101, 32, 101, 115, 115, 101, 110, 116, 105, 97, 108, 32, 102, 97, 99,
    116, 115, 32, 111, 102, 32, 108, 105, 102, 101, 44, 32, 97, 110, 100,
    32, 115, 101, 101, 32, 105, 102, 32, 73, 32, 99, 111, 117, 108, 100,
    32, 110, 111, 116, 32, 108, 101, 97, 114, 110, 32, 119, 104, 97, 116,
    32, 105, 116, 32, 104, 97, 100, 32, 116, 111, 32, 116, 101, 97, 99,
    104, 44, 32, 97, 110, 100, 32, 110, 111, 116, 44, 32, 119, 104, 101,
    110, 32, 73, 32, 99, 97, 109, 101, 32, 116, 111, 32, 100, 105, 101, 44,
    32, 100, 105, 115, 99, 111, 118, 101, 114, 32, 116, 104, 97, 116, 32,
    73, 32, 104, 97, 100, 32, 110, 111, 116, 32, 108, 105, 118, 101, 100,
    46>>
Q7_author ==
    <<72, 101, 110, 114, 121, 32, 68, 97, 118, 105, 100, 32, 84, 104, 111,
    114, 101, 97, 117>>
Q7_date ==
    <<49, 56, 53, 52>>
\* 8: All the world?s a stage, and all the men and wo... (William Shakespeare, 1599)
Q8_content ==
    <<65, 108, 108, 32, 116, 104, 101, 32, 119, 111, 114, 108, 100, 8217,
    115, 32, 97, 32, 115, 116, 97, 103, 101, 44, 32, 97, 110, 100, 32, 97,
    108, 108, 32, 116, 104, 101, 32, 109, 101, 110, 32, 97, 110, 100, 32,
    119, 111, 109, 101, 110, 32, 109, 101, 114, 101, 108, 121, 32, 112,
    108, 97, 121, 101, 114, 115, 46>>
Q8_author ==
    <<87, 105, 108, 108, 105, 97, 109, 32, 83, 104, 97, 107, 101, 115, 112,
    101, 97, 114, 101>>
Q8_date ==
    <<49, 53, 57, 57>>

Quote(id, content, author, date, ownerUserId) ==
  JObj(<< Prop(<<105, 100>>, JStr(id)),  \* "id"
          Prop(S_content, JStr(content)),
          Prop(S_author, JStr(author)),
          Prop(S_date, JStr(date)),
          Prop(S_ownerUserId, JStr(ownerUserId)) >>)

InitialQuotes ==
  << Quote(Decimal(0), Q0_content, Q0_author, Q0_date, S_owner),
     Quote(Decimal(1), Q1_content, Q1_author, Q1_date, S_owner),
     Quote(Decimal(2), Q2_content, Q2_author, Q2_date, S_owner),
     Quote(Decimal(3), Q3_content, Q3_author, Q3_date, S_owner),
     Quote(Decimal(4), Q4_content, Q4_author, Q4_date, S_owner),
     Quote(Decimal(5), Q5_content, Q5_author, Q5_date, S_owner),
     Quote(Decimal(6), Q6_content, Q6_author, Q6_date, S_owner),
     Quote(Decimal(7), Q7_content, Q7_author, Q7_date, S_owner),
     Quote(Decimal(8), Q8_content, Q8_author, Q8_date, S_owner) >>

\* const QUOTES: Record<string, Quote>, as first built.
InitialQUOTES ==
  [id \in {Decimal(i - 1) : i \in 1..Len(InitialQuotes)} |->
     InitialQuotes[CHOOSE i \in 1..Len(InitialQuotes) : Decimal(i - 1) = id]]

(***************************************************************************)
(* Conversions of JavaScript that the handlers rely on.                    *)
(***************************************************************************)
S_undefined == <<117, 110, 100, 101, 102, 105, 110, 101, 100>>  \* "undefined"

\* String(x), as a template literal or a property key converts x.
JsToString(x) ==
  CASE x.t = "str" -> x.v
    [] x.t = "num" -> Decimal(x.v)
    [] x.t = "undefined" -> S_undefined
    [] OTHER -> <<91, 111, 98, 106, 101, 99, 116, 32, 79, 98, 106, 101, 99, 116, 93>>  \* "[object Object]"

\* Object.keys(x).length for any value: a string has one key per code unit.
KeyCount(x) ==
  CASE x.t = "obj" -> Len(x.v)
    [] x.t = "str" -> Len(x.v)
    [] OTHER -> 0

IsNullish(x) == x = Undefined \/ x = Null

(***************************************************************************)
(* The cache (RedisStore): get(key) -> value | absent, set(key, value,     *)
(* ttl?).  An entry without ttl never expires.                             *)
(***************************************************************************)
\* The expiry of an entry that never expires.
NoExpiry == 0 - 1

ValueForKey(c, key, t) ==
  IF key \in DOMAIN c /\ (c[key].expiresAt = NoExpiry \/ t < c[key].expiresAt)
    THEN c[key].value
    ELSE Null

SetValueForKey(c, value, key, ttl, t) ==
  [k \in DOMAIN c \cup {key} |->
     IF k = key
       THEN [value |-> value,
             expiresAt |-> IF ttl.t = "num" THEN t + ttl.v ELSE NoExpiry]
       ELSE c[k]]

(***************************************************************************)
(* TestDataManager.                                                        *)
(***************************************************************************)
GetAppKeyForApiKey_AnyKey(apiKey) == JStr(APP_KEY)

GetAppKeyForApiKey(apiKey) == IF apiKey = API_KEY THEN JStr(APP_KEY) ELSE Null

\* jwt.sign(payload, key, {expiresIn: '1h'}) at instant t.
JwtSign(payload, key, t) ==
  [w |-> "jwt", payload |-> payload, exp |-> t + TokenLifetime, key |-> key]

\* jwt.verify(token, key) at instant t: the payload, or an exception for a
\* malformed token, a token signed with another key, or an expired one.
JwtVerify(token, key, t) ==
  IF token.w = "jwt" /\ token.key = key /\ t < token.exp
    THEN [threw |-> FALSE, value |-> token.payload]
    ELSE [threw |-> TRUE, value |-> Undefined]

Login_CaseSensitive(username, password, t) ==
  IF username = JStr(USERNAME) /\ password = JStr(PASSWORD)
    THEN [threw |-> FALSE,
          value |-> JwtSign([t |-> "claims", username |-> username.v], JWT_KEY, t)]
    ELSE [threw |-> FALSE, value |-> Undefined]

\* login(username, password) at instant t.  toLowerCase of a value that is
\* no string throws.
Login(username, password, t) ==
  IF username.t # "str" THEN [threw |-> TRUE, value |-> Undefined]
  ELSE IF ToLowerCase(username.v) = ToLowerCase(USERNAME)
          /\ password = JStr(PASSWORD)
    THEN [threw |-> FALSE,
          value |-> JwtSign([t |-> "claims", username |-> ToLowerCase(username.v)],
                            JWT_KEY, t)]
    ELSE [threw |-> FALSE, value |-> Undefined]

VerifyToken_NoCatch(token, t) == JwtVerify(token, JWT_KEY, t)

VerifyToken_NoExpiry(token, t) ==
  [threw |-> FALSE,
   value |-> IF token.w = "jwt" /\ token.key = JWT_KEY THEN token.payload
             ELSE Undefined]

\* verifyToken: what jwt.verify returns, undefined when it throws; it lets
\* no exception out.
VerifyToken(token, t) ==
  LET r == JwtVerify(token, JWT_KEY, t)
  IN IF r.threw THEN [threw |-> FALSE, value |-> Undefined] ELSE r

\* QUOTES is an object literal: besides its own properties, the ids of the
\* quotes, it has the properties it inherits from Object.prototype.
S_constructor == <<99, 111, 110, 115, 116, 114, 117, 99, 116, 111, 114>>  \* "constructor"
ObjectPrototypeKeys ==
  { <<99, 111, 110, 115, 116, 114, 117, 99, 116, 111, 114>>,  \* "constructor"
    <<116, 111, 83, 116, 114, 105, 110, 103>>,  \* "toString"
    <<118, 97, 108, 117, 101, 79, 102>>,  \* "valueOf"
    <<104, 97, 115, 79, 119, 110, 80, 114, 111, 112, 101, 114, 116, 121>>,  \* "hasOwnProperty"
    <<105, 115, 80, 114, 111, 116, 111, 116, 121, 112, 101, 79, 102>>,  \* "isPrototypeOf"
    <<112, 114, 111, 112, 101, 114, 116, 121, 73, 115, 69, 110, 117, 109, 101, 114, 97, 98, 108, 101>>,  \* "propertyIsEnumerable"
    <<116, 111, 76, 111, 99, 97, 108, 101, 83, 116, 114, 105, 110, 103>>,  \* "toLocaleString"
    <<95, 95, 112, 114, 111, 116, 111, 95, 95>>,  \* "__proto__"
    <<95, 95, 100, 101, 102, 105, 110, 101, 71, 101, 116, 116, 101, 114, 95, 95>>,  \* "__defineGetter__"
    <<95, 95, 100, 101, 102, 105, 110, 101, 83, 101, 116, 116, 101, 114, 95, 95>>,  \* "__defineSetter__"
    <<95, 95, 108, 111, 111, 107, 117, 112, 71, 101, 116, 116, 101, 114, 95, 95>>,  \* "__lookupGetter__"
    <<95, 95, 108, 111, 111, 107, 117, 112, 83, 101, 116, 116, 101, 114, 95, 95>> }  \* "__lookupSetter__"

\* QUOTES[id]: the quote, an inherited member (a function or the prototype,
\* truthy and without keys of its own), or undefined.
QuotesLookup(q, id) ==
  IF JsToString(id) \in DOMAIN q THEN q[JsToString(id)]
  ELSE IF JsToString(id) \in ObjectPrototypeKeys
    THEN [t |-> "inherited", v |-> JsToString(id)]
  ELSE Undefined

\* `quote:${id}`
QuoteKey(id) == S_quoteColon \o JsToString(id)

\* getQuoteWithId(id) at instant t on cache c and store q: the quote it
\* returns and the cache it leaves.
GetQuoteWithId(c, q, id, t) ==
  LET cached == ValueForKey(c, QuoteKey(id), t)
      miss == IsNullish(cached) \/ KeyCount(cached) = 0
      quote == IF ~miss THEN cached
               ELSE QuotesLookup(q, id)
      c2 == IF miss /\ quote # Undefined
              THEN SetValueForKey(c, quote, QuoteKey(id), Undefined, t)
              ELSE c
  IN [quote |-> quote, cache |-> c2]

\* addQuote(content, author, date) on store q: the quote and the new store.
AddQuote(q, content, author, date) ==
  LET id == Decimal(Cardinality(DOMAIN q))
      quote == JObj(<< Prop(<<105, 100>>, JStr(id)),
                       Prop(S_date, date),
                       Prop(S_content, content),
                       Prop(S_author, author),
                       Prop(S_ownerUserId, JStr(S_newb)) >>)
  IN [quote |-> quote,
      QUOTES |-> [k \in DOMAIN q \cup {id} |-> IF k = id THEN quote ELSE q[k]]]

\* deleteQuote(id) on store q: the new store, or the Error it throws.  The
\* test QUOTES[id] is passed by an inherited member too, and delete leaves
\* what is not an own property where it is.
DeleteQuote(q, id) ==
  IF QuotesLookup(q, id) # Undefined
    THEN [threw |-> FALSE,
          QUOTES |-> [k \in DOMAIN q \ {JsToString(id)} |-> q[k]],
          message |-> <<>>]
    ELSE [threw |-> TRUE,
          QUOTES |-> q,
          message |-> <<"No quote with ID ", JsToString(id), " found.">>]

\* Object.values(QUOTES): the keys of QUOTES are canonical decimals, which an
\* object enumerates in ascending numeric order.
DecimalLess(a, b) == Len(a) < Len(b) \/ (Len(a) = Len(b) /\ StrLess(a, b))

RECURSIVE ObjectValues(_)
ObjectValues(q) ==
  IF DOMAIN q = {} THEN <<>>
  ELSE LET first == CHOOSE k \in DOMAIN q :
                      \A o \in DOMAIN q \ {k} : DecimalLess(k, o)
       IN <<q[first]>> \o ObjectValues([k \in DOMAIN q \ {first} |-> q[k]])

\* The comparator of searchQuotes: multiplier * (a[sortKey] > b[sortKey] ? 1 : -1)
CompareQuotes(a, b, sortKey, ascendingSort) ==
  LET multiplier == IF ascendingSort THEN 1 ELSE 0 - 1
  IN multiplier * (IF StrLess(GetProp(b, sortKey).v, GetProp(a, sortKey).v)
                     THEN 1 ELSE 0 - 1)

\* quotes.sort(comparator), as V8 sorts an array of fewer than 64 elements:
\* the run the array starts with is counted, and reversed when it descends;
\* every element after it is put into the sorted part at the place a binary
\* search finds, which asks the comparator for (element, middle).  The
\* comparator never answers 0, so where quotes with equal fields end up
\* depends on these steps.
RECURSIVE CountRun(_, _, _, _, _)
CountRun(quotes, idx, isDescending, sortKey, ascendingSort) ==
  IF idx > Len(quotes) THEN Len(quotes)
  ELSE LET order == CompareQuotes(quotes[idx], quotes[idx - 1], sortKey,
                                  ascendingSort)
       IN IF (isDescending /\ order >= 0) \/ (~isDescending /\ order < 0)
            THEN idx - 1
            ELSE CountRun(quotes, idx + 1, isDescending, sortKey, ascendingSort)

Reverse(seq) == [i \in 1..Len(seq) |-> seq[Len(seq) + 1 - i]]

\* The number of elements of sorted that the binary search leaves before x.
RECURSIVE BinarySearch(_, _, _, _, _, _)
BinarySearch(sorted, x, left, right, sortKey, ascendingSort) ==
  IF left >= right THEN left
  ELSE LET mid == left + ((right - left) \div 2)
       IN IF CompareQuotes(x, sorted[mid + 1], sortKey, ascendingSort) < 0
            THEN BinarySearch(sorted, x, left, mid, sortKey, ascendingSort)
            ELSE BinarySearch(sorted, x, mid + 1, right, sortKey, ascendingSort)

InsertQuote(sorted, x, sortKey, ascendingSort) ==
  LET left == BinarySearch(sorted, x, 0, Len(sorted), sortKey, ascendingSort)
  IN SubSeq(sorted, 1, left) \o <<x>> \o SubSeq(sorted, left + 1, Len(sorted))

RECURSIVE BinaryInsertionSort(_, _, _, _)
BinaryInsertionSort(sorted, rest, sortKey, ascendingSort) ==
  IF rest = <<>> THEN sorted
  ELSE BinaryInsertionSort(InsertQuote(sorted, Head(rest), sortKey, ascendingSort),
                           Tail(rest), sortKey, ascendingSort)

SortQuotes_Unsorted(quotes, sortKey, ascendingSort) == quotes

SortQuotes(quotes, sortKey, ascendingSort) ==
  IF Len(quotes) < 2 THEN quotes
  ELSE
    LET isDescending ==
          CompareQuotes(quotes[2], quotes[1], sortKey, ascendingSort) < 0
        runLength == CountRun(quotes, 3, isDescending, sortKey, ascendingSort)
        run == SubSeq(quotes, 1, runLength)
    IN BinaryInsertionSort(IF isDescending THEN Reverse(run) ELSE run,
                           SubSeq(quotes, runLength + 1, Len(quotes)),
                           sortKey, ascendingSort)

\* searchQuotes(searchTerm, author, sortKey, ascendingSort) on store q: the
\* quotes it returns; it throws when searchTerm has no toLowerCase.  An
\* ascendingSort that is not given is true.
SearchQuotes_CaseSensitive(q, searchTerm, author, sortKey, ascendingSort) ==
  [threw |-> FALSE,
   value |-> SelectSeq(ObjectValues(q),
                       LAMBDA quote :
                         /\ Includes(GetProp(quote, S_content).v, searchTerm.v)
                         /\ (author # Undefined /\ author # JStr(<<>>))
                              => GetProp(quote, S_author) = author)]

SearchQuotes(q, searchTerm, author, sortKey, ascendingSort) ==
  IF DOMAIN q # {} /\ searchTerm.t # "str" THEN [threw |-> TRUE, value |-> <<>>]
  ELSE
    LET byContent ==
          SelectSeq(ObjectValues(q),
                    LAMBDA quote : Includes(ToLowerCase(GetProp(quote, S_content).v),
                                            ToLowerCase(searchTerm.v)))
        givenAuthor == author # Undefined /\ author # JStr(<<>>)
        quotes ==
          SelectSeq(byContent,
                    LAMBDA quote : givenAuthor =>
                      ToLowerCase(GetProp(quote, S_author).v) = ToLowerCase(author.v))
        validKeys == {S_date, S_content, S_author}
    IN [threw |-> FALSE,
        value |-> IF /\ Len(quotes) > 0
                     /\ sortKey # Undefined /\ sortKey # JStr(<<>>)
                     /\ sortKey.v \in validKeys
                    THEN SortQuotes(quotes, sortKey.v,
                                    IF ascendingSort = Undefined THEN TRUE
                                    ELSE ascendingSort.v)
                    ELSE quotes]

(***************************************************************************)
(* Requests.  The Authorization header is kept as the list of its words    *)
(* (what split(' ') returns); a word is some text or a JSON web token.     *)
(***************************************************************************)
StrWord(s) == [w |-> "str", s |-> s]
EmptyWord == StrWord(<<>>)
Header(words) == [t |-> "header", words |-> words]

\* `Bearer ${authToken}`, and the empty header '' of a client without token.
BearerHeader(token) == Header(<<StrWord(S_Bearer), token>>)
EmptyHeader == Header(<<EmptyWord>>)

\* if (x) for a word or undefined: undefined and '' are falsy.
Truthy(x) == x # Undefined /\ x # EmptyWord

\* getAuthToken: req.header(AuthToken)?.split(' ')[1]
GetAuthToken(req) ==
  LET h == req.headers.authorization
  IN IF h = Undefined THEN Undefined
     ELSE IF Len(h.words) >= 2 THEN h.words[2]
     ELSE Undefined

IsAuthenticatedRequestor_AnyToken(req, t) ==
  [threw |-> FALSE, value |-> Truthy(GetAuthToken(req))]

\* TestAccessLevelEvaluator.isAuthenticatedRequestor at instant t: the
\* boolean it returns, or that it threw.
IsAuthenticatedRequestor(req, t) ==
  LET token == GetAuthToken(req)
      claim == VerifyToken(token, t)
  IN IF Truthy(token)
       THEN IF claim.threw THEN [threw |-> TRUE, value |-> FALSE]
            ELSE [threw |-> FALSE, value |-> claim.value # Undefined]
       ELSE [threw |-> FALSE, value |-> FALSE]

(***************************************************************************)
(* Body validators.                                                        *)
(***************************************************************************)
SetCacheValueBodyValidator_AnyBody(body) == TRUE

\* SetCacheValueBodyValidator.isValid
SetCacheValueBodyValidator(body) ==
  /\ ~IsNullish(GetProp(body, S_key))
  /\ ~IsNullish(GetProp(body, S_value))

\* /^[a-zA-Z0-9?.;,! ]+$/.test(x), x converted to a string.
AllowedQuoteChar(c) ==
  \/ c >= 97 /\ c <= 122
  \/ c >= 65 /\ c <= 90
  \/ c >= 48 /\ c <= 57
  \/ c \in {63, 46, 59, 44, 33, 32}

QuoteRegexTest(x) ==
  LET s == JsToString(x)
  IN Len(s) > 0 /\ \A i \in 1..Len(s) : AllowedQuoteChar(s[i])

AddQuoteSchemaValidator_AnyBody(body) == TRUE

\* AddQuoteSchemaValidator.isValid
AddQuoteSchemaValidator(body) ==
  /\ GetProp(body, S_author) # Undefined
  /\ GetProp(body, S_content) # Undefined
  /\ GetProp(body, S_date) # Undefined
  /\ QuoteRegexTest(GetProp(body, S_author))
  /\ QuoteRegexTest(GetProp(body, S_content))
  /\ GetProp(body, S_date).t = "str" /\ Len(GetProp(body, S_date).v) > 0

(***************************************************************************)
(* The query parameters of the search endpoint.                            *)
(***************************************************************************)
\* /^[a-zA-Z0-9 ]+$/.test(value)
AlphanumericOrSpace(c) ==
  \/ c >= 97 /\ c <= 122
  \/ c >= 65 /\ c <= 90
  \/ c >= 48 /\ c <= 57
  \/ c = 32

QuoteSearchTermQueryParameterValidator(value) ==
  Len(value) > 0 /\ \A i \in 1..Len(value) : AlphanumericOrSpace(value[i])

QuoteAuthorQueryParameterValidator(value) ==
  Len(value) > 0 /\ \A i \in 1..Len(value) : AlphanumericOrSpace(value[i])

QuoteSortKeyQueryParameterValidator(value) ==
  value \in {S_content, S_date, S_author}

BooleanQueryParameterValidator(value) ==
  ToLowerCase(value) \in {S_true, S_false, <<49>>, <<48>>}

\* BooleanQueryParameterProcessor.process: the boolean, as a JSON value.
JBool(b) == [t |-> "bool", v |-> b]

BooleanQueryParameterProcessor(value) ==
  JBool(ToLowerCase(value) \in {S_true, <<49>>})

UrlQueryParameter(name, validator, processor, required) ==
  [name |-> name, validator |-> validator, processor |-> processor,
   required |-> required]

\* @QueryParameters([...]) of search, in the order of the declaration.
SearchQueryParameters ==
  << UrlQueryParameter(S_searchTerm, "QuoteSearchTerm", "passthrough", TRUE),
     UrlQueryParameter(S_author, "QuoteAuthor", "passthrough", FALSE),
     UrlQueryParameter(S_sortKey, "QuoteSortKey", "passthrough", FALSE),
     UrlQueryParameter(S_ascendingSort, "Boolean", "Boolean", FALSE) >>

IsValidQueryValue(validator, value) ==
  CASE validator = "QuoteSearchTerm" -> QuoteSearchTermQueryParameterValidator(value)
    [] validator = "QuoteAuthor" -> QuoteAuthorQueryParameterValidator(value)
    [] validator = "QuoteSortKey" -> QuoteSortKeyQueryParameterValidator(value)
    [] validator = "Boolean" -> BooleanQueryParameterValidator(value)

ProcessQueryValue(processor, value) ==
  CASE processor = "passthrough" -> JStr(value)
    [] processor = "Boolean" -> BooleanQueryParameterProcessor(value)

(***************************************************************************)
(* The ownership evaluator of the quotes endpoints.                        *)
(***************************************************************************)
\* quote?.ownerUserId
OwnerUserId(quote) ==
  IF quote.t = "obj" THEN GetProp(quote, S_ownerUserId) ELSE Undefined

\* QuotesEndpointGenerator.owns at instant t on cache c and store q: the
\* boolean it returns (or that it threw) and the cache it leaves.
Owns_TokenRequired(req, c, q, t) ==
  [threw |-> FALSE,
   value |-> /\ req.jsonBody.t = "obj"
             /\ Truthy(GetAuthToken(req))
             /\ VerifyToken(GetAuthToken(req), t).value # Undefined
             /\ JStr(VerifyToken(GetAuthToken(req), t).value.username)
                  = OwnerUserId(QuotesLookup(q, GetProp(req.jsonBody, S_quoteId))),
   cache |-> c]

Owns(req, c, q, t) ==
  IF req.jsonBody.t # "obj"
    THEN [threw |-> FALSE, value |-> FALSE, cache |-> c]
    ELSE
      LET got == GetQuoteWithId(c, q, GetProp(req.jsonBody, S_quoteId), t)
          token == GetAuthToken(req)
          claim == VerifyToken(token, t)
      IN IF Truthy(token)
           THEN IF claim.threw \/ claim.value = Undefined
                  THEN [threw |-> TRUE, value |-> FALSE, cache |-> got.cache]
                  ELSE [threw |-> FALSE,
                        value |-> JStr(claim.value.username)
                                    = OwnerUserId(got.quote),
                        cache |-> got.cache]
           ELSE [threw |-> FALSE, value |-> TRUE, cache |-> got.cache]

(***************************************************************************)
(* The endpoint handlers.  Each returns the response ({status?, data}, the *)
(* status 200 when the handler sets none), the store and the cache it      *)
(* leaves, or that it threw.                                               *)
(***************************************************************************)
DefaultStatus == 200

Handled(status, data, q, c) ==
  [threw |-> FALSE, status |-> status, data |-> data, QUOTES |-> q, cache |-> c]

Threw(q, c) ==
  [threw |-> TRUE, status |-> 0, data |-> Undefined, QUOTES |-> q, cache |-> c]

NotFoundData(message) ==
  [success |-> FALSE, error |-> [id |-> "NotFound", message |-> message]]

\* CacheEndpointGenerator.getCacheValue
GetCacheValue(req, c, q, t) ==
  LET value == ValueForKey(c, req.params, t)
  IN IF IsNullish(value)
       THEN Handled(404,
                    NotFoundData(<<"No value found for key '", req.params, "'">>),
                    q, c)
       ELSE Handled(DefaultStatus, [success |-> TRUE, value |-> value], q, c)

\* CacheEndpointGenerator.addCacheValue
AddCacheValue(req, c, q, t) ==
  LET body == req.jsonBody
      key == JsToString(GetProp(body, S_key))
  IN Handled(DefaultStatus,
             [success |-> TRUE, message |-> <<"Set value for key '", key, "'">>],
             q,
             SetValueForKey(c, GetProp(body, S_value), key,
                            GetProp(body, <<116, 116, 108>>), t))  \* "ttl"

\* QuotesEndpointGenerator.getQuote
GetQuote(req, c, q, t) ==
  LET got == GetQuoteWithId(c, q, JStr(req.params), t)
  IN IF got.quote # Undefined
       THEN Handled(DefaultStatus, [success |-> TRUE, quote |-> got.quote],
                    q, got.cache)
       ELSE Handled(404,
                    NotFoundData(<<"Failed to find quote with id: ", req.params>>),
                    q, got.cache)

\* QuotesEndpointGenerator.addQuote
AddQuoteHandler(req, c, q, t) ==
  LET body == req.jsonBody
      added == AddQuote(q, GetProp(body, S_content), GetProp(body, S_author),
                        GetProp(body, S_date))
  IN Handled(DefaultStatus, [success |-> TRUE, quote |-> added.quote],
             added.QUOTES, c)

\* QuotesEndpointGenerator.search
SearchHandler(req, c, q, t) ==
  LET queryParams == req.queryParameters
      ascendingSort == GetProp(queryParams, S_ascendingSort)
      quotes == SearchQuotes(q, GetProp(queryParams, S_searchTerm),
                             GetProp(queryParams, S_author),
                             GetProp(queryParams, S_sortKey),
                             IF IsNullish(ascendingSort) THEN JBool(TRUE)
                             ELSE ascendingSort)
  IN IF quotes.threw THEN Threw(q, c)
     ELSE Handled(DefaultStatus, [success |-> TRUE, quotes |-> quotes.value],
                  q, c)

\* QuotesEndpointGenerator.deleteQuote
DeleteQuoteHandler(req, c, q, t) ==
  IF req.jsonBody.t # "obj" THEN Threw(q, c)
  ELSE
    LET quoteId == GetProp(req.jsonBody, S_quoteId)
        deleted == DeleteQuote(q, quoteId)
    IN IF ~deleted.threw
         THEN Handled(DefaultStatus,
                      [success |-> TRUE,
                       message |-> <<"Successfully deleted quote with ID ",
                                     JsToString(quoteId)>>],
                      deleted.QUOTES, c)
         ELSE Handled(404, NotFoundData(deleted.message), q, c)

\* loginMethod.requestHandler
LoginHandler(req, c, q, t) ==
  IF req.jsonBody.t # "obj" THEN Threw(q, c)
  ELSE
    LET token == Login(GetProp(req.jsonBody, S_username),
                       GetProp(req.jsonBody, S_password), t)
    IN IF token.threw THEN Threw(q, c)
       ELSE IF token.value # Undefined
         THEN Handled(200, [success |-> TRUE, authToken |-> token.value], q, c)
         ELSE Handled(403,
                      [success |-> FALSE,
                       error |-> [id |-> "Unauthorized",
                                  message |-> <<"Invalid username or password.">>]],
                      q, c)

(***************************************************************************)
(* The client: ApiXClient of client.ts.                                    *)
(***************************************************************************)
\* generateNonce(16) draws sixteen alphanumeric characters at random; the
\* model draws from two of the strings it can return.
Nonce(c) == [i \in 1..16 |-> c]
Nonces == {Nonce(65), Nonce(66)}

\* How far the client clock may be ahead of the server clock, in ticks.
ClientSkews == {0, 1}

\* getRequestHeaders(path, httpMethod, data) with the nonce drawn and at
\* client time `tick`.
GetRequestHeaders_SecondDate(path, httpMethod, data, nonce, tick, authToken) ==
  [apiKey |-> API_KEY,
   signature |-> GenerateSignature(APP_KEY, path, HttpDate(tick), nonce,
                                   httpMethod, data),
   nonce |-> nonce,
   date |-> HttpDate(tick + 1),
   authorization |-> IF Truthy(authToken) THEN BearerHeader(authToken)
                     ELSE EmptyHeader]

GetRequestHeaders(path, httpMethod, data, nonce, tick, authToken) ==
  [apiKey |-> API_KEY,
   signature |-> GenerateSignature(APP_KEY, path, HttpDate(tick), nonce,
                                   httpMethod, data),
   nonce |-> nonce,
   date |-> HttpDate(tick),
   authorization |-> IF Truthy(authToken) THEN BearerHeader(authToken)
                     ELSE EmptyHeader]

\* request(url, httpMethod, jsonBody): the request is built, not sent.  The
\* field path holds the URL, after scheme and host.
ClientRequest(path, httpMethod, jsonBody, nonce, tick, authToken) ==
  [t |-> "request", method |-> httpMethod, path |-> path, data |-> jsonBody,
   headers |-> GetRequestHeaders(ExtractPathFromUrl(path), httpMethod, jsonBody,
                                 nonce, tick, authToken)]

\* The calls of the test sequences.
Body_cacheAdd == JObj(<<Prop(S_key, JStr(S_myKey)), Prop(S_value, JNum(980))>>)
Body_cacheAddNested ==  \* {key: 'myKey', value: {a: 1}}
  JObj(<<Prop(S_key, JStr(S_myKey)),
         Prop(S_value, JObj(<<Prop(S_a, JNum(1))>>))>>)
Body_cacheAddKeyed ==  \* {key: 'myKey', value: {value: 1, key: 2}}
  JObj(<<Prop(S_key, JStr(S_myKey)),
         Prop(S_value, JObj(<<Prop(S_value, JNum(1)), Prop(S_key, JNum(2))>>))>>)
Body_addQuote ==
  JObj(<< Prop(S_content,  \* "Why is Gamora?"
               JStr(<<87, 104, 121, 32, 105, 115, 32, 71, 97, 109, 111, 114, 97, 63>>)),
          Prop(S_author,  \* "Drax the Destroyer"
               JStr(<<68, 114, 97, 120, 32, 116, 104, 101, 32, 68, 101, 115,
                      116, 114, 111, 121, 101, 114>>)),
          Prop(S_date, JStr(<<50, 48, 49, 56>>)) >>)  \* "2018"
\* {...o, [k]: v} and o without its property k.
WithProp(o, k, v) ==
  IF HasProp(o, k)
    THEN JObj([i \in DOMAIN o.v |-> IF o.v[i].k = k THEN Prop(k, v) ELSE o.v[i]])
    ELSE JObj(Append(o.v, Prop(k, v)))
WithoutProp(o, k) == JObj(SelectSeq(o.v, LAMBDA p : p.k # k))
Body_addQuoteInvalid ==  \* content 'Why is Gamora?---***', ownerUserId given
  WithProp(WithProp(Body_addQuote, S_content,
                    JStr(GetProp(Body_addQuote, S_content).v
                           \o <<45, 45, 45, 42, 42, 42>>)),
           S_ownerUserId, JStr(S_owner))
Body_deleteQuote == JObj(<<Prop(S_quoteId, JStr(Decimal(9)))>>)
Body_login ==
  JObj(<<Prop(S_username, JStr(USERNAME)), Prop(S_password, JStr(PASSWORD))>>)

Call(method, path, body) == [method |-> method, path |-> path, body |-> body]

(***************************************************************************)
(* What may happen to a request on its way: nothing, or one field of it is *)
(* replaced.  The Authorization header is not covered by the signature.    *)
(***************************************************************************)
ExpiredToken ==
  [w |-> "jwt", payload |-> [t |-> "claims", username |-> ToLowerCase(USERNAME)],
   exp |-> 0, key |-> JWT_KEY]
ForgedToken ==
  [w |-> "jwt", payload |-> [t |-> "claims", username |-> ToLowerCase(USERNAME)],
   exp |-> TokenLifetime, key |-> OTHER_JWT_KEY]

\* Every number of a JSON value replaced by the next one.
RECURSIVE OtherBody(_)
OtherBody(x) ==
  IF x = Undefined THEN x
  ELSE IF x.t = "num" THEN JNum(x.v + 1)
  ELSE IF x.t = "obj"
    THEN JObj([i \in DOMAIN x.v |-> Prop(x.v[i].k, OtherBody(x.v[i].v))])
  ELSE x

OtherMethod(method) == IF method = S_GET THEN S_PUT ELSE S_GET

OtherNonce(nonce) == IF nonce = Nonce(65) THEN Nonce(66) ELSE Nonce(65)

Deliver(req, variant) ==
  CASE variant = "asBuilt" -> req
    [] variant = "otherPath" -> [req EXCEPT !.path = req.path \o S_a]
    [] variant = "otherMethod" -> [req EXCEPT !.method = OtherMethod(req.method)]
    [] variant = "otherNonce" ->
         [req EXCEPT !.headers.nonce = OtherNonce(req.headers.nonce)]
    [] variant = "otherDate" ->
         [req EXCEPT !.headers.date =
                       HttpDate(ParseHttpDate(req.headers.date) + 1)]
    [] variant = "otherBody" -> [req EXCEPT !.data = OtherBody(req.data)]
    [] variant = "invalidSignature" ->
         [req EXCEPT !.headers.signature = RawSignature(S_invalidSignature)]
    [] variant = "otherApiKey" ->
         [req EXCEPT !.headers.apiKey = OTHER_API_KEY]
    [] variant = "noAuthorization" ->
         [req EXCEPT !.headers.authorization = Undefined]
    [] variant = "emptyBearer" ->
         [req EXCEPT !.headers.authorization = BearerHeader(EmptyWord)]
    [] variant = "garbageToken" ->
         [req EXCEPT !.headers.authorization = BearerHeader(StrWord(S_a))]
    [] variant = "expiredToken" ->
         [req EXCEPT !.headers.authorization = BearerHeader(ExpiredToken)]
    [] variant = "forgedToken" ->
         [req EXCEPT !.headers.authorization = BearerHeader(ForgedToken)]

(***************************************************************************)
(* The endpoint registry: the descriptors the server registers.            *)
(***************************************************************************)
NoRoute == [endpoint |-> "none", params |-> <<>>]

\* A route of the registry: @Route(method, httpMethod, index) of a generator
\* on @EndpointGenerator(entity), or an app method.  The index is the place
\* the declaration asks for among the routes of its generator.
NoIndex == 0 - 1

RouteDescriptor(endpoint, entity, method, httpMethod, index) ==
  [endpoint |-> endpoint, entity |-> entity, method |-> method,
   httpMethod |-> httpMethod, index |-> index]

\* The routes of a generator in the order they are registered: the ones
\* declared with an index first, the others in the order of declaration.
GeneratorRoutes(declared) ==
  SelectSeq(declared, LAMBDA r : r.index # NoIndex)
    \o SelectSeq(declared, LAMBDA r : r.index = NoIndex)

LoginMethod == RouteDescriptor("login", <<47>>, Tail(S_login), S_POST, NoIndex)

CacheEndpointGenerator ==
  << RouteDescriptor("getCacheValue", S_cachePrefix, <<58>> \o S_key, S_GET, NoIndex),
     RouteDescriptor("addCacheValue", S_cachePrefix, S_add, S_PUT, NoIndex) >>

QuotesEndpointGenerator ==
  << RouteDescriptor("getQuote", S_quotesPrefix, <<58, 105, 100>>, S_GET, NoIndex),
     RouteDescriptor("addQuote", S_quotesPrefix, S_add, S_PUT, NoIndex),
     RouteDescriptor("deleteQuote", S_quotesPrefix, S_delete, S_DELETE, NoIndex),
     RouteDescriptor("search", S_quotesPrefix, S_search, S_GET, 0) >>

\* registerAppMethod(loginMethod), registerEndpointGenerator(cache),
\* registerEndpointGenerator(quotes).
Registered ==
  <<LoginMethod>> \o GeneratorRoutes(CacheEndpointGenerator)
    \o GeneratorRoutes(QuotesEndpointGenerator)

\* The route matches the verb and the path; a method ':name' matches any one
\* segment.
Matches(r, method, path) ==
  /\ r.httpMethod = method
  /\ HasPrefix(path, r.entity)
  /\ Len(path) > Len(r.entity)
  /\ LET rest == DropPrefix(path, r.entity)
     IN IF Head(r.method) = 58 THEN IndexOf(rest, 47) > Len(rest)
        ELSE rest = r.method

\* The request goes to the first route of the registry that matches it.
Dispatch(registry, method, path) ==
  IF \E i \in DOMAIN registry : Matches(registry[i], method, path)
    THEN LET i == CHOOSE i \in DOMAIN registry :
                    /\ Matches(registry[i], method, path)
                    /\ \A j \in 1..(i - 1) : ~Matches(registry[j], method, path)
             r == registry[i]
         IN [endpoint |-> r.endpoint,
             params |-> IF Head(r.method) = 58 THEN DropPrefix(path, r.entity)
                        ELSE <<>>]
    ELSE NoRoute

Route(method, path) == Dispatch(Registered, method, path)

MinAccessLevel_AllPublic(endpoint) == "Public"

\* @AuthRequired(): the endpoints that need an authenticated requestor.
MinAccessLevel(endpoint) ==
  IF endpoint \in {"getQuote", "deleteQuote"} THEN "Authenticated" ELSE "Public"

\* @HttpBody(validator, true) and jsonBodyRequired: true.
RequiresBody(endpoint) == endpoint \in {"addCacheValue", "addQuote", "login"}

BodyValidator(endpoint, body) ==
  CASE endpoint = "addCacheValue" -> SetCacheValueBodyValidator(body)
    [] endpoint = "addQuote" -> AddQuoteSchemaValidator(body)
    [] OTHER -> TRUE

\* @QueryParameters([...]): the query parameters the endpoint declares.
QueryParameters(endpoint) ==
  IF endpoint = "search" THEN SearchQueryParameters ELSE <<>>

\* @OwnerEvaluator(): the endpoints on owned data, for which owns is asked.
HasOwnerEvaluator(endpoint) == endpoint \in {"getQuote", "deleteQuote"}

\* Whether a requestor who does not own the resource is turned away.  An
\* endpoint on public owned data asks for an authenticated requestor and no
\* more: the answer of its evaluator is of no consequence.
OwnershipEnforced(endpoint) == FALSE

RequestHandler(endpoint, req, c, q, t) ==
  CASE endpoint = "login" -> LoginHandler(req, c, q, t)
    [] endpoint = "getCacheValue" -> GetCacheValue(req, c, q, t)
    [] endpoint = "addCacheValue" -> AddCacheValue(req, c, q, t)
    [] endpoint = "getQuote" -> GetQuote(req, c, q, t)
    [] endpoint = "addQuote" -> AddQuoteHandler(req, c, q, t)
    [] endpoint = "deleteQuote" -> DeleteQuoteHandler(req, c, q, t)
    [] endpoint = "search" -> SearchHandler(req, c, q, t)

(***************************************************************************)
(* The responses of the framework.                                         *)
(***************************************************************************)
ErrorResponse(status, message) ==
  [status |-> status, data |-> [success |-> FALSE, message |-> <<message>>]]

InvalidRequestResponse == ErrorResponse(401, "This request is not valid.")
UnauthorizedResponse == ErrorResponse(401, "This request is not authorized.")
ForbiddenResponse == ErrorResponse(403, "This request is forbidden.")
InvalidBodyResponse == ErrorResponse(400, "Invalid request. Invalid HTTP body.")
NotFoundResponse == ErrorResponse(404, "Not found.")
InternalErrorResponse == ErrorResponse(500, "Internal error.")

MissingParameterResponse(name) ==
  [status |-> 400,
   data |-> [success |-> FALSE,
             message |-> <<"Missing required parameter ", name>>]]
InvalidParameterResponse(name) ==
  [status |-> 400,
   data |-> [success |-> FALSE, message |-> <<"Invalid parameter ", name>>]]

(***************************************************************************)
(* The validation of the query parameters.                                 *)
(***************************************************************************)
\* The value of parameter name in the query, undefined when it has none.
QueryValue(query, name) ==
  IF \E i \in DOMAIN query : query[i].name = name
    THEN JStr(query[CHOOSE i \in DOMAIN query :
                      /\ query[i].name = name
                      /\ \A j \in 1..(i - 1) : query[j].name # name].value)
    ELSE Undefined

\* The declared parameters are gone through in the order of declaration: the
\* first that is required and absent, or present and refused by its
\* validator, ends the request.
ValidateQuery_Skipped(declared, query) == [ok |-> TRUE, response |-> Undefined]

RECURSIVE ValidateQuery(_, _)
ValidateQuery(declared, query) ==
  IF declared = <<>> THEN [ok |-> TRUE, response |-> Undefined]
  ELSE LET p == Head(declared)
           value == QueryValue(query, p.name)
       IN IF value = Undefined
            THEN IF p.required
                   THEN [ok |-> FALSE, response |-> MissingParameterResponse(p.name)]
                   ELSE ValidateQuery(Tail(declared), query)
          ELSE IF ~IsValidQueryValue(p.validator, value.v)
            THEN [ok |-> FALSE, response |-> InvalidParameterResponse(p.name)]
          ELSE ValidateQuery(Tail(declared), query)

\* req.queryParameters: the declared parameters the query has, processed.
ProcessQuery(declared, query) ==
  LET present == SelectSeq(declared,
                           LAMBDA p : QueryValue(query, p.name) # Undefined)
  IN JObj([i \in DOMAIN present |->
             Prop(present[i].name,
                  ProcessQueryValue(present[i].processor,
                                    QueryValue(query, present[i].name).v))])

(***************************************************************************)
(* The authenticator.                                                      *)
(***************************************************************************)
\* The request as the server reads it.
ServerRequest(wire, params) ==
  [method |-> wire.method, path |-> ExtractPathFromUrl(wire.path),
   params |-> params,
   queryParameters |->
     ProcessQuery(QueryParameters(Route(wire.method,
                                        ExtractPathFromUrl(wire.path)).endpoint),
                  ParseQuery(wire.path)),
   jsonBody |-> wire.data, headers |-> wire.headers]

Abs(x) == IF x < 0 THEN 0 - x ELSE x

Stale_Never(timestamp, t) == FALSE

\* |now - timestamp| exceeds the freshness window.
Stale(timestamp, t) == Abs(t - timestamp) > FreshnessWindow

NonceExpiresAt_FromInsertion(timestamp, t) == t + FreshnessWindow

\* expiresAt of the record of a request accepted at instant t.
NonceExpiresAt(timestamp, t) == timestamp + FreshnessWindow

NonceRecord(apiKey, nonce, expiresAt) ==
  [apiKey |-> apiKey, nonce |-> nonce, expiresAt |-> expiresAt]

Unexpired(l, t) == {rec \in l : t <= rec.expiresAt}

NonceSeen_Never(l, apiKey, nonce, t) == FALSE

NonceSeen_AnyNonce(l, apiKey, nonce, t) ==
  \E rec \in Unexpired(l, t) : rec.apiKey = apiKey

\* An unexpired record of (apiKey, nonce) is in the ledger.
NonceSeen(l, apiKey, nonce, t) ==
  \E rec \in Unexpired(l, t) : rec.apiKey = apiKey /\ rec.nonce = nonce

\* The outcome of the authenticator for a request read at instant t with
\* ledger l.
Authenticator(req, l, t) ==
  LET secret == GetAppKeyForApiKey(req.headers.apiKey)
  IN IF IsNullish(secret) THEN "invalidCredentials"
     ELSE IF req.headers.signature
               # GenerateSignature(secret.v, req.path, req.headers.date,
                                   req.headers.nonce, req.method, req.jsonBody)
       THEN "invalidSignature"
     ELSE IF Stale(ParseHttpDate(req.headers.date), t) THEN "stale"
     ELSE IF NonceSeen(l, req.headers.apiKey, req.headers.nonce, t) THEN "replay"
     ELSE "accepted"

AuthenticationRejection_Leaky(outcome) == ErrorResponse(401, outcome)

\* What the caller is told of a rejection by the authenticator.
AuthenticationRejection(outcome) == InvalidRequestResponse

LedgerInsert_Lost(l, req, t) == Unexpired(l, t)

LedgerAfter_AnyOutcome(l, req, outcome, t) ==
  l \cup {NonceRecord(req.headers.apiKey, req.headers.nonce,
                      NonceExpiresAt(ParseHttpDate(req.headers.date), t))}

\* The ledger after the check-and-insert of an accepted request.
LedgerInsert(l, req, t) ==
  Unexpired(l, t)
    \cup {NonceRecord(req.headers.apiKey, req.headers.nonce,
                      NonceExpiresAt(ParseHttpDate(req.headers.date), t))}

\* The ledger after the authenticator has judged a request: a record is
\* created on the successful verification of a request, and on no other.
LedgerAfter(l, req, outcome, t) ==
  IF outcome = "accepted" THEN LedgerInsert(l, req, t) ELSE l

(***************************************************************************)
(* The state.                                                              *)
(***************************************************************************)
VARIABLES
  now,          \* the server clock, in ticks
  QUOTES,       \* the quote store
  cache,        \* the key-value cache
  ledger,       \* the nonce ledger
  authToken,    \* the token the client holds
  lastRequest,  \* the request the client built last
  inflight,     \* the deliveries the server is working on, by slot
  accepted,     \* the requests the authenticator has accepted, and when
  nBuilt,       \* requests built
  nDelivered    \* deliveries made

vars ==
  <<now, QUOTES, cache, ledger, authToken, lastRequest, inflight, accepted,
    nBuilt, nDelivered>>

Slots == {"s1", "s2"}

Idle == [pc |-> "idle"]

Delivery(req, variant) ==
  [pc |-> "auth", sent |-> req, wire |-> Deliver(req, variant), route |-> NoRoute, outcome |-> "none",
   authAt |-> 0 - 1, replayed |-> FALSE, level |-> "none", owned |-> "none",
   handled |-> FALSE, response |-> Undefined]

Init ==
  /\ now = 0
  /\ QUOTES = InitialQUOTES
  /\ cache = [k \in {} |-> Undefined]
  /\ ledger = {}
  /\ authToken = Undefined
  /\ lastRequest = Undefined
  /\ inflight = [s \in Slots |-> Idle]
  /\ accepted = {}
  /\ nBuilt = 0
  /\ nDelivered = 0

\* Five seconds pass.
Tick ==
  /\ now < MaxTime
  /\ now' = now + 1
  /\ UNCHANGED <<QUOTES, cache, ledger, authToken, lastRequest, inflight,
                 accepted, nBuilt, nDelivered>>

\* The client builds a request.
Build(call, nonce, skew) ==
  /\ nBuilt < MaxRequests
  /\ lastRequest' = ClientRequest(call.path, call.method, call.body, nonce,
                                  now + skew, authToken)
  /\ nBuilt' = nBuilt + 1
  /\ UNCHANGED <<now, QUOTES, cache, ledger, authToken, inflight, accepted,
                 nDelivered>>

\* The request built last reaches the server, as built or with a header
\* replaced; it may reach it more than once.
Send(s, variant) ==
  /\ lastRequest # Undefined
  /\ nDelivered < MaxDeliveries
  /\ inflight[s] = Idle
  /\ inflight' = [inflight EXCEPT ![s] = Delivery(lastRequest, variant)]
  /\ nDelivered' = nDelivered + 1
  /\ UNCHANGED <<now, QUOTES, cache, ledger, authToken, lastRequest, accepted,
                 nBuilt>>

\* What makes two deliveries the same signed request: everything but the
\* Authorization header.
SignedRequest(wire) == [wire EXCEPT !.headers.authorization = Undefined]

\* makeRequest(url, httpMethod, jsonBody): the request is built and sent, and
\* the response awaited.
MakeRequest(s, call, nonce, variant) ==
  /\ nBuilt < MaxSequence
  /\ \A o \in Slots : inflight[o] = Idle
  /\ inflight' =
       [inflight EXCEPT ![s] =
          Delivery(ClientRequest(call.path, call.method, call.body, nonce,
                                 now, authToken), variant)]
  /\ nBuilt' = nBuilt + 1
  /\ UNCHANGED <<now, QUOTES, cache, ledger, authToken, lastRequest, accepted,
                 nDelivered>>

Done(d, response) == [d EXCEPT !.pc = "done", !.response = response]

\* Route match, then the authenticator with its check-and-insert of the nonce.
Authenticate(s) ==
  LET d == inflight[s]
      route == Route(d.wire.method, ExtractPathFromUrl(d.wire.path))
      req == ServerRequest(d.wire, route.params)
      outcome == Authenticator(req, ledger, now)
      d1 == [d EXCEPT !.route = route, !.authAt = now,
                      !.replayed = (\E a \in accepted :
                                      a.request = SignedRequest(d.wire))]
  IN /\ d.pc = "auth"
     /\ IF route = NoRoute
          THEN /\ inflight' = [inflight EXCEPT ![s] = Done(d1, NotFoundResponse)]
               /\ UNCHANGED <<ledger, accepted>>
        ELSE IF outcome = "accepted"
          THEN /\ inflight' = [inflight EXCEPT
                                 ![s] = [d1 EXCEPT !.pc = "access",
                                                   !.outcome = outcome]]
               /\ ledger' = LedgerAfter(ledger, req, outcome, now)
               /\ accepted' = accepted \cup {[request |-> SignedRequest(d.wire),
                                                at |-> now]}
          ELSE /\ inflight' = [inflight EXCEPT
                                 ![s] = Done([d1 EXCEPT !.outcome = outcome],
                                             AuthenticationRejection(outcome))]
               /\ ledger' = LedgerAfter(ledger, req, outcome, now)
               /\ UNCHANGED accepted
     /\ UNCHANGED <<now, QUOTES, cache, authToken, lastRequest, nBuilt,
                    nDelivered>>

\* The access-level check, then the validation of the body.
Authorize(s) ==
  LET d == inflight[s]
      req == ServerRequest(d.wire, d.route.params)
      authenticated == IsAuthenticatedRequestor(req, now)
      level == IF authenticated.threw THEN "threw"
               ELSE IF authenticated.value THEN "Authenticated"
               ELSE "Public"
      d1 == [d EXCEPT !.level = level]
  IN /\ d.pc = "access"
     /\ inflight' =
          [inflight EXCEPT ![s] =
             IF authenticated.threw THEN Done(d1, InternalErrorResponse)
             ELSE IF MinAccessLevel(d.route.endpoint) = "Authenticated"
                  /\ level # "Authenticated"
               THEN Done(d1, UnauthorizedResponse)
             ELSE IF ~ValidateQuery(QueryParameters(d.route.endpoint),
                                    ParseQuery(d.wire.path)).ok
               THEN Done(d1, ValidateQuery(QueryParameters(d.route.endpoint),
                                           ParseQuery(d.wire.path)).response)
             ELSE IF RequiresBody(d.route.endpoint)
                       /\ (req.jsonBody.t # "obj"
                             \/ ~BodyValidator(d.route.endpoint, req.jsonBody))
               THEN Done(d1, InvalidBodyResponse)
             ELSE IF HasOwnerEvaluator(d.route.endpoint)
               THEN [d1 EXCEPT !.pc = "owner"]
             ELSE [d1 EXCEPT !.pc = "handler"]]
     /\ UNCHANGED <<now, QUOTES, cache, ledger, authToken, lastRequest,
                    accepted, nBuilt, nDelivered>>

\* The ownership evaluator.
Ownership(s) ==
  LET d == inflight[s]
      req == ServerRequest(d.wire, d.route.params)
      r == Owns(req, cache, QUOTES, now)
      d1 == [d EXCEPT !.owned = IF r.threw THEN "threw"
                                ELSE IF r.value THEN "owned" ELSE "notOwned"]
  IN /\ d.pc = "owner"
     /\ cache' = r.cache
     /\ inflight' =
          [inflight EXCEPT ![s] =
             IF r.threw THEN Done(d1, InternalErrorResponse)
             ELSE IF OwnershipEnforced(d.route.endpoint) /\ ~r.value
               THEN Done(d1, ForbiddenResponse)
             ELSE [d1 EXCEPT !.pc = "handler"]]
     /\ UNCHANGED <<now, QUOTES, ledger, authToken, lastRequest, accepted,
                    nBuilt, nDelivered>>

\* The handler of the endpoint.
Handle(s) ==
  LET d == inflight[s]
      req == ServerRequest(d.wire, d.route.params)
      r == RequestHandler(d.route.endpoint, req, cache, QUOTES, now)
  IN /\ d.pc = "handler"
     /\ QUOTES' = r.QUOTES
     /\ cache' = r.cache
     /\ inflight' =
          [inflight EXCEPT ![s] =
             Done([d EXCEPT !.handled = TRUE],
                  IF r.threw THEN InternalErrorResponse
                  ELSE [status |-> r.status, data |-> r.data])]
     /\ UNCHANGED <<now, ledger, authToken, lastRequest, accepted, nBuilt,
                    nDelivered>>

\* The client receives the response; it keeps the token of a login.
Receive(s) ==
  LET d == inflight[s]
  IN /\ d.pc = "done"
     /\ inflight' = [inflight EXCEPT ![s] = Idle]
     /\ authToken' =
          IF d.route.endpoint = "login" /\ "authToken" \in DOMAIN d.response.data
            THEN d.response.data.authToken
            ELSE authToken
     /\ UNCHANGED <<now, QUOTES, cache, ledger, lastRequest, accepted, nBuilt,
                    nDelivered>>

(***************************************************************************)
(* The authentication scenario: a client of the cache endpoints whose      *)
(* clock may run ahead of the server's, and a network that may deliver the *)
(* request built last again, at any time, as built or with its signature   *)
(* or API key replaced.  The server is done with a delivery well within    *)
(* the five seconds of a tick.                                             *)
(***************************************************************************)
AuthenticationCalls ==
  { Call(S_GET, S_cachePrefix \o S_myKey, Undefined),
    Call(S_PUT, S_cachePrefix \o S_add, Body_cacheAdd) }

AuthenticationVariants == {"asBuilt", "invalidSignature", "otherApiKey"}

Next ==
  \/ inflight["s1"] = Idle /\ Tick
  \/ \E call \in AuthenticationCalls, nonce \in Nonces, skew \in ClientSkews :
       inflight["s1"] = Idle /\ Build(call, nonce, skew)
  \/ \E variant \in AuthenticationVariants : Send("s1", variant)
  \/ Authenticate("s1")
  \/ Authorize("s1")
  \/ Handle("s1")
  \/ Receive("s1")

Spec == Init /\ [][Next]_vars

(***************************************************************************)
(* The tamper scenario: one signable field of the request built last is    *)
(* replaced on the way and its signature left as it was.                   *)
(***************************************************************************)
TamperCalls ==
  { Call(S_GET, S_cachePrefix \o S_myKey, Undefined),
    Call(S_PUT, S_cachePrefix \o S_add, Body_cacheAdd),
    Call(S_PUT, S_cachePrefix \o S_add, Body_cacheAddNested) }

TamperVariants ==
  {"asBuilt", "otherPath", "otherMethod", "otherNonce", "otherDate",
   "otherBody"}

NextTamper ==
  \/ inflight["s1"] = Idle /\ Tick
  \/ \E call \in TamperCalls, nonce \in Nonces :
       inflight["s1"] = Idle /\ Build(call, nonce, 0)
  \/ \E variant \in TamperVariants : Send("s1", variant)
  \/ Authenticate("s1")
  \/ Authorize("s1")
  \/ Handle("s1")
  \/ Receive("s1")

SpecTamper == Init /\ [][NextTamper]_vars

(***************************************************************************)
(* The access scenario: the test runner logs in, reads, adds and deletes a *)
(* quote, awaiting each response; the Authorization header of a request    *)
(* may be replaced on the way.                                             *)
(***************************************************************************)
AccessCalls ==
  { Call(S_POST, S_login, Body_login),
    Call(S_GET, S_quotesPrefix \o Decimal(0), Undefined),
    Call(S_PUT, S_quotesPrefix \o S_add, Body_addQuote),
    Call(S_DELETE, S_quotesPrefix \o S_delete, Body_deleteQuote) }

AccessVariants ==
  {"asBuilt", "noAuthorization", "emptyBearer", "garbageToken",
   "expiredToken", "forgedToken"}

\* generateNonce draws a nonce it has not drawn before.
FreshNonce == Nonce(65 + nBuilt)

NextAccess ==
  \/ inflight["s1"] = Idle /\ Tick
  \/ \E call \in AccessCalls, variant \in AccessVariants :
       MakeRequest("s1", call, FreshNonce, variant)
  \/ Authenticate("s1")
  \/ Authorize("s1")
  \/ Ownership("s1")
  \/ Handle("s1")
  \/ Receive("s1")

SpecAccess == Init /\ [][NextAccess]_vars

(***************************************************************************)
(* The concurrent scenario: the server works on two deliveries at once,    *)
(* their steps interleaved in every order.  A delivery is the request      *)
(* built last, as built or with its signature replaced.                    *)
(***************************************************************************)
ConcurrentCalls ==
  { Call(S_GET, S_cachePrefix \o S_myKey, Undefined),
    Call(S_PUT, S_cachePrefix \o S_add, Body_cacheAdd) }

ConcurrentVariants == {"asBuilt", "invalidSignature"}

NextConcurrent ==
  \/ (\A s \in Slots : inflight[s] = Idle) /\ Tick
  \/ \E call \in ConcurrentCalls, nonce \in Nonces :
       (\A s \in Slots : inflight[s] = Idle) /\ Build(call, nonce, 0)
  \/ \E s \in Slots, variant \in ConcurrentVariants : Send(s, variant)
  \/ \E s \in Slots : Authenticate(s)
  \/ \E s \in Slots : Authorize(s)
  \/ \E s \in Slots : Handle(s)
  \/ \E s \in Slots : Receive(s)

SpecConcurrent == Init /\ [][NextConcurrent]_vars

(***************************************************************************)
(* The retry scenario: the test sequence goes on after the replayed, the   *)
(* old and the wrongly signed request.  A request is built and delivered   *)
(* any number of times, at any time, as built or with its signature or API *)
(* key replaced; then the client makes new requests, each with a nonce it  *)
(* has not drawn before and the timestamp of the instant it is made.       *)
(***************************************************************************)
\* The request of the replayed, old and wrongly signed deliveries and of the
\* requests made after them: the same endpoint and body.
RetryCalls == {Call(S_PUT, S_cachePrefix \o S_add, Body_cacheAdd)}

NextRetry ==
  \/ inflight["s1"] = Idle /\ Tick
  \/ \E call \in RetryCalls :
       inflight["s1"] = Idle /\ Build(call, FreshNonce, 0)
  \/ \E variant \in AuthenticationVariants : Send("s1", variant)
  \/ \E call \in RetryCalls :
       MakeRequest("s1", call, FreshNonce, "asBuilt")
  \/ Authenticate("s1")
  \/ Authorize("s1")
  \/ Handle("s1")
  \/ Receive("s1")

SpecRetry == Init /\ [][NextRetry]_vars

(***************************************************************************)
(* The key-order scenario: the client writes the body of a request with    *)
(* its keys in any order, at every depth.                                  *)
(***************************************************************************)
\* The JSON values equal to x: the same keys with equal values, in any
\* insertion order.
RECURSIVE Reorderings(_)
Reorderings(x) ==
  IF x = Undefined \/ x.t # "obj" THEN {x}
  ELSE LET n == Len(x.v)
           values == UNION {Reorderings(x.v[j].v) : j \in 1..n}
       IN UNION {
            { JObj([i \in 1..n |-> Prop(x.v[p[i]].k, f[i])]) :
                f \in {g \in [1..n -> values] :
                         \A i \in 1..n : g[i] \in Reorderings(x.v[p[i]].v)} } :
            p \in Permutations(1..n) }

KeyOrderCalls ==
  { Call(S_PUT, S_cachePrefix \o S_add, body) :
      body \in Reorderings(Body_cacheAdd) \cup Reorderings(Body_cacheAddKeyed) }

NextKeyOrder ==
  \/ \E call \in KeyOrderCalls : MakeRequest("s1", call, FreshNonce, "asBuilt")
  \/ Authenticate("s1")
  \/ Authorize("s1")
  \/ Handle("s1")
  \/ Receive("s1")

SpecKeyOrder == Init /\ [][NextKeyOrder]_vars

(***************************************************************************)
(* The add-quote scenario: the client adds quotes, with the body of the    *)
(* test sequence, with its invalid body, and with bodies that lack a field *)
(* or carry an empty date or an author with a character the schema does    *)
(* not allow.                                                              *)
(***************************************************************************)
AddQuoteBodies ==
  { Body_addQuote,
    Body_addQuoteInvalid,
    WithoutProp(Body_addQuote, S_author),
    WithoutProp(Body_addQuote, S_content),
    WithoutProp(Body_addQuote, S_date),
    WithProp(Body_addQuote, S_date, JStr(<<>>)),
    WithProp(Body_addQuote, S_author, JStr(<<68, 114, 97, 120, 42>>)) }  \* 'Drax*'

AddQuoteCalls ==
  {Call(S_PUT, S_quotesPrefix \o S_add, body) : body \in AddQuoteBodies}

NextAddQuote ==
  \/ \E call \in AddQuoteCalls : MakeRequest("s1", call, FreshNonce, "asBuilt")
  \/ Authenticate("s1")
  \/ Authorize("s1")
  \/ Handle("s1")
  \/ Receive("s1")

SpecAddQuote == Init /\ [][NextAddQuote]_vars

(***************************************************************************)
(* The search scenario: the client searches the quotes, with the URLs of   *)
(* the test sequence and with URLs whose parameters are absent or refused  *)
(* by their validators.                                                    *)
(***************************************************************************)
Url_searchMissingTerm ==  \* /quotes/search?sortBy=date&ascendingSort=true&author=William Shakespeare
  <<47, 113, 117, 111, 116, 101, 115, 47, 115, 101, 97, 114, 99, 104, 63, 115, 111, 114, 116, 66, 121, 61, 100, 97, 116, 101, 38, 97, 115, 99, 101, 110, 100, 105, 110, 103, 83, 111, 114, 116, 61, 116, 114, 117, 101, 38, 97, 117, 116, 104, 111, 114, 61, 87, 105, 108, 108, 105, 97, 109, 32, 83, 104, 97, 107, 101, 115, 112, 101, 97, 114, 101>>
Url_searchLive ==  \* /quotes/search?searchTerm=live&sortKey=date
  <<47, 113, 117, 111, 116, 101, 115, 47, 115, 101, 97, 114, 99, 104, 63, 115, 101, 97, 114, 99, 104, 84, 101, 114, 109, 61, 108, 105, 118, 101, 38, 115, 111, 114, 116, 75, 101, 121, 61, 100, 97, 116, 101>>
Url_searchNoQuery ==  \* /quotes/search
  <<47, 113, 117, 111, 116, 101, 115, 47, 115, 101, 97, 114, 99, 104>>
Url_searchMissingTermBadOthers ==  \* /quotes/search?author=Drax*&sortKey=id
  <<47, 113, 117, 111, 116, 101, 115, 47, 115, 101, 97, 114, 99, 104, 63, 97, 117, 116, 104, 111, 114, 61, 68, 114, 97, 120, 42, 38, 115, 111, 114, 116, 75, 101, 121, 61, 105, 100>>
Url_searchBadAuthorAndSortKey ==  \* /quotes/search?sortKey=id&author=Drax*&searchTerm=live
  <<47, 113, 117, 111, 116, 101, 115, 47, 115, 101, 97, 114, 99, 104, 63, 115, 111, 114, 116, 75, 101, 121, 61, 105, 100, 38, 97, 117, 116, 104, 111, 114, 61, 68, 114, 97, 120, 42, 38, 115, 101, 97, 114, 99, 104, 84, 101, 114, 109, 61, 108, 105, 118, 101>>
Url_searchBadTerm ==  \* /quotes/search?searchTerm=li*ve&ascendingSort=maybe
  <<47, 113, 117, 111, 116, 101, 115, 47, 115, 101, 97, 114, 99, 104, 63, 115, 101, 97, 114, 99, 104, 84, 101, 114, 109, 61, 108, 105, 42, 118, 101, 38, 97, 115, 99, 101, 110, 100, 105, 110, 103, 83, 111, 114, 116, 61, 109, 97, 121, 98, 101>>
Url_searchBadAscendingSort ==  \* /quotes/search?searchTerm=the&ascendingSort=maybe
  <<47, 113, 117, 111, 116, 101, 115, 47, 115, 101, 97, 114, 99, 104, 63, 115, 101, 97, 114, 99, 104, 84, 101, 114, 109, 61, 116, 104, 101, 38, 97, 115, 99, 101, 110, 100, 105, 110, 103, 83, 111, 114, 116, 61, 109, 97, 121, 98, 101>>

SearchCalls ==
  { Call(S_GET, url, Undefined) :
      url \in {Url_searchMissingTerm, Url_searchLive, Url_searchNoQuery,
               Url_searchMissingTermBadOthers, Url_searchBadAuthorAndSortKey,
               Url_searchBadTerm, Url_searchBadAscendingSort} }

NextSearch ==
  \/ \E call \in SearchCalls : MakeRequest("s1", call, FreshNonce, "asBuilt")
  \/ Authenticate("s1")
  \/ Authorize("s1")
  \/ Handle("s1")
  \/ Receive("s1")

SpecSearch == Init /\ [][NextSearch]_vars

(***************************************************************************)
(* The login scenario: the client logs in with the user name as            *)
(* configured, in upper case, or the invalid one of the test sequence, and *)
(* with the password as configured, in upper case, or the invalid one of   *)
(* the test sequence.  It keeps the token of a login that succeeds and     *)
(* sends it with the requests that follow.                                 *)
(***************************************************************************)
LoginUsernames ==
  { USERNAME,
    <<65, 80, 73, 88, 64, 69, 86, 79, 76, 85, 84, 73, 46, 85, 83>>,  \* "APIX@EVOLUTI.US"
    <<115, 111, 109, 101, 73, 110, 118, 97, 108, 105, 100, 85, 115, 101, 114, 110, 97, 109, 101, 64, 105, 110, 118, 97, 108, 105, 100, 46, 99, 111, 109>> }  \* "someInvalidUsername@invalid.com"

LoginPasswords ==
  { PASSWORD,
    <<80, 87>>,  \* "PW"
    <<72, 69, 76, 76, 79, 48, 73, 110, 118, 97, 108, 105, 100>> }  \* "HELLO0Invalid"

LoginCalls ==
  { Call(S_POST, S_login,
         JObj(<<Prop(S_username, JStr(username)), Prop(S_password, JStr(password))>>)) :
      username \in LoginUsernames, password \in LoginPasswords }

NextLogin ==
  \/ \E call \in LoginCalls : MakeRequest("s1", call, FreshNonce, "asBuilt")
  \/ Authenticate("s1")
  \/ Authorize("s1")
  \/ Handle("s1")
  \/ Receive("s1")

SpecLogin == Init /\ [][NextLogin]_vars

(***************************************************************************)
(* The session scenario: as time passes the client reads quote 0, which    *)
(* asks for an authenticated requestor, and logs in, with the user name as *)
(* configured or in upper case; it keeps the token of the login and sends  *)
(* it with the requests that follow.                                       *)
(***************************************************************************)
SessionCalls ==
  { Call(S_GET, S_quotesPrefix \o Decimal(0), Undefined),
    Call(S_POST, S_login, Body_login),
    Call(S_POST, S_login,
         WithProp(Body_login, S_username,
                  JStr(<<65, 80, 73, 88, 64, 69, 86, 79, 76, 85, 84, 73, 46, 85, 83>>))) }  \* "APIX@EVOLUTI.US"

NextSession ==
  \/ inflight["s1"] = Idle /\ Tick
  \/ \E call \in SessionCalls : MakeRequest("s1", call, FreshNonce, "asBuilt")
  \/ Authenticate("s1")
  \/ Authorize("s1")
  \/ Ownership("s1")
  \/ Handle("s1")
  \/ Receive("s1")

SpecSession == Init /\ [][NextSession]_vars

(***************************************************************************)
(* The cache scenario: the client reads myKey and sets it, with the body   *)
(* of the test sequence, with the value 0, and with bodies whose key or    *)
(* value is missing or null; once a value is set, time passes.             *)
(***************************************************************************)
CacheAddBodies ==
  { Body_cacheAdd,
    WithProp(Body_cacheAdd, S_value, JNum(0)),
    WithoutProp(Body_cacheAdd, S_key),
    WithoutProp(Body_cacheAdd, S_value),
    WithProp(Body_cacheAdd, S_key, Null),
    WithProp(Body_cacheAdd, S_value, Null) }

CacheCalls ==
  {Call(S_GET, S_cachePrefix \o S_myKey, Undefined)}
    \cup {Call(S_PUT, S_cachePrefix \o S_add, body) : body \in CacheAddBodies}

NextCache ==
  \/ inflight["s1"] = Idle /\ DOMAIN cache # {} /\ Tick
  \/ \E call \in CacheCalls : MakeRequest("s1", call, FreshNonce, "asBuilt")
  \/ Authenticate("s1")
  \/ Authorize("s1")
  \/ Handle("s1")
  \/ Receive("s1")

SpecCache == Init /\ [][NextCache]_vars

(***************************************************************************)
(* The delete scenario: the client logs in and deletes quotes: quote 0,    *)
(* quote 9, which the initial store does not hold, and the id              *)
(* 'constructor'; it may delete the same id again.                         *)
(***************************************************************************)
DeleteCalls ==
  { Call(S_POST, S_login, Body_login),
    Call(S_DELETE, S_quotesPrefix \o S_delete, Body_deleteQuote),
    Call(S_DELETE, S_quotesPrefix \o S_delete,
         WithProp(Body_deleteQuote, S_quoteId, JStr(Decimal(0)))),
    Call(S_DELETE, S_quotesPrefix \o S_delete,
         WithProp(Body_deleteQuote, S_quoteId, JStr(S_constructor))) }

NextDelete ==
  \/ \E call \in DeleteCalls : MakeRequest("s1", call, FreshNonce, "asBuilt")
  \/ Authenticate("s1")
  \/ Authorize("s1")
  \/ Ownership("s1")
  \/ Handle("s1")
  \/ Receive("s1")

SpecDelete == Init /\ [][NextDelete]_vars
(***************************************************************************)
(* Properties of the authenticator.                                        *)
(***************************************************************************)
\* The deliveries the authenticator has judged.
Judged == {s \in Slots : inflight[s].pc \notin {"idle", "auth"}}

Timestamp(wire) == ParseHttpDate(wire.headers.date)

\* The timestamp of a request is inside the freshness window at instant t.
InsideWindow(wire, t) ==
  /\ t - Timestamp(wire) <= FreshnessWindow
  /\ Timestamp(wire) - t <= FreshnessWindow

\* The delivery was answered 401 'This request is not valid.' and no handler
\* ran for it.
RejectedAsInvalid(d) ==
  /\ d.pc = "done"
  /\ d.response = [status |-> 401,
                   data |-> [success |-> FALSE,
                             message |-> <<"This request is not valid.">>]]
  /\ ~d.handled

\* C1: a delivery of a request the server has accepted before (the same API
\* key, nonce, timestamp, signature and body), made while the timestamp is
\* inside the freshness window, is answered 401 'This request is not valid.'
\* and its handler is not invoked.
C1_SingleUseNonce ==
  \A s \in Judged :
    inflight[s].replayed /\ InsideWindow(inflight[s].wire, inflight[s].authAt)
      => RejectedAsInvalid(inflight[s])

C1_ReplayRejected ==
  \E s \in Judged :
    /\ inflight[s].replayed
    /\ InsideWindow(inflight[s].wire, inflight[s].authAt)
    /\ inflight[s].wire = inflight[s].sent
    /\ inflight[s].outcome = "replay"
    /\ inflight[s].pc = "done"

\* C2: of two deliveries of the same signed request that the server works
\* on at once, at most one is accepted, and when one is accepted the other,
\* its timestamp inside the freshness window, is rejected as a replay.
C2_ConcurrentDeliveries ==
  \A a, b \in Judged :
    a # b /\ SignedRequest(inflight[a].wire) = SignedRequest(inflight[b].wire)
      => /\ ~(inflight[a].outcome = "accepted" /\ inflight[b].outcome = "accepted")
         /\ inflight[a].outcome = "accepted"
              /\ InsideWindow(inflight[b].wire, inflight[b].authAt)
              => inflight[b].outcome = "replay"

C2_OneAcceptedOneReplay ==
  /\ inflight["s1"].pc = "access"
  /\ inflight["s1"].outcome = "accepted"
  /\ inflight["s2"].pc = "done"
  /\ inflight["s2"].outcome = "replay"
  /\ inflight["s2"].authAt = inflight["s1"].authAt
  /\ inflight["s1"].wire = inflight["s2"].wire

C4_Freshness ==
  \A s \in Judged :
    (\/ ~InsideWindow(inflight[s].wire, inflight[s].authAt)
     \/ inflight[s].authAt - Timestamp(inflight[s].wire) >= OldRequestDelay)
      => RejectedAsInvalid(inflight[s])

C4_OldRequestRejected ==
  \E s \in Judged :
    /\ inflight[s].authAt - Timestamp(inflight[s].wire) = OldRequestDelay
    /\ inflight[s].wire = inflight[s].sent
    /\ \A a \in accepted :
          a.request.headers.nonce # inflight[s].wire.headers.nonce
    /\ inflight[s].outcome = "stale"
    /\ inflight[s].pc = "done"

\* The request carries the signature of its canonical message under the app
\* key of its API key.
CorrectlySigned(wire) ==
  /\ wire.headers.apiKey = API_KEY
  /\ wire.headers.signature
       = Hmac(APP_KEY, CanonicalMessage(wire.path, wire.headers.date,
                                        wire.headers.nonce, wire.method,
                                        wire.data))

\* C5: a delivery whose X-Signature is not the HMAC of its canonical message
\* under the app key of its API key is answered 401 'This request is not
\* valid.' and reaches no handler; an API key with no app key has no such
\* signature, and a delivery with it is rejected and reaches no handler.
C5_BadSignatureRejected ==
  \A s \in Judged :
    LET d == inflight[s]
    IN /\ d.wire.headers.apiKey = API_KEY /\ ~CorrectlySigned(d.wire)
            /\ d.route # NoRoute
          => RejectedAsInvalid(d)
       /\ d.wire.headers.apiKey # API_KEY /\ d.route # NoRoute
          => d.pc = "done" /\ d.outcome # "accepted" /\ ~d.handled
                /\ d.response.status = 401

C5_InvalidSignatureSeen ==
  \E s \in Judged :
    /\ inflight[s].wire.headers.apiKey = API_KEY
    /\ inflight[s].wire.headers.signature = RawSignature(S_invalidSignature)
    /\ InsideWindow(inflight[s].wire, inflight[s].authAt)
    /\ ~inflight[s].replayed
    /\ inflight[s].outcome = "invalidSignature"
    /\ inflight[s].pc = "done"

\* C7: the rejections for an invalid signature, for a stale timestamp and
\* for a replayed nonce cannot be told apart: each is answered with status
\* 401 and the body {success: false, message: 'This request is not valid.'}.
C7_OracleResistance ==
  \A a, b \in Judged :
    /\ inflight[a].outcome \in {"invalidSignature", "stale", "replay"}
    /\ inflight[b].outcome \in {"invalidSignature", "stale", "replay"}
    => /\ inflight[a].response = inflight[b].response
       /\ inflight[a].response.status = 401
       /\ inflight[a].response.data
            = [success |-> FALSE, message |-> <<"This request is not valid.">>]

C7_TwoKindsOfRejection ==
  /\ inflight["s1"].pc = "done"
  /\ inflight["s2"].pc = "done"
  /\ inflight["s1"].outcome = "replay"
  /\ inflight["s2"].outcome \in {"invalidSignature", "stale"}
  /\ inflight["s1"].response = inflight["s2"].response

(***************************************************************************)
(* Tampering.                                                              *)
(***************************************************************************)
\* The signable fields in which the request received differs from the
\* request sent.
ChangedFields(d) ==
  {f \in {"path", "method", "nonce", "date", "body"} :
     CASE f = "path" -> d.wire.path # d.sent.path
       [] f = "method" -> d.wire.method # d.sent.method
       [] f = "nonce" -> d.wire.headers.nonce # d.sent.headers.nonce
       [] f = "date" -> d.wire.headers.date # d.sent.headers.date
       [] f = "body" -> d.wire.data # d.sent.data}

\* One signable field was changed on the way and the rest, the signature
\* with it, left as it was.
OneFieldChanged(d) ==
  /\ Cardinality(ChangedFields(d)) = 1
  /\ d.wire.headers.signature = d.sent.headers.signature
  /\ d.wire.headers.apiKey = d.sent.headers.apiKey

CanonicalMessageOf(wire) ==
  CanonicalMessage(wire.path, wire.headers.date, wire.headers.nonce,
                   wire.method, wire.data)

\* C6: when one signable field of a signed request (path, verb, nonce,
\* timestamp or JSON body) is changed after signing and the signature left
\* as it was, the canonical message of the request received differs from
\* the one signed, and the request is rejected: it is not accepted and no
\* handler runs for it.
C6_TamperDetection ==
  \A s \in Judged :
    OneFieldChanged(inflight[s])
      => /\ CanonicalMessageOf(inflight[s].wire)
              # CanonicalMessageOf(inflight[s].sent)
         /\ inflight[s].pc = "done"
         /\ inflight[s].outcome # "accepted"
         /\ ~inflight[s].handled

\* A body changed inside a nested object went through: the server stored
\* the value the client never signed.
C6_TamperedBodyStored ==
  \E s \in Judged :
    /\ ChangedFields(inflight[s]) = {"body"}
    /\ inflight[s].wire.headers.signature = inflight[s].sent.headers.signature
    /\ inflight[s].sent.data = Body_cacheAddNested
    /\ inflight[s].outcome = "accepted"
    /\ inflight[s].handled
    /\ inflight[s].response.status = 200
    /\ S_myKey \in DOMAIN cache
    /\ cache[S_myKey].value = JObj(<<Prop(S_a, JNum(2))>>)

(***************************************************************************)
(* Access levels and ownership.                                            *)
(***************************************************************************)
AuthenticatedEndpoints == {"getQuote", "deleteQuote"}

\* The Authorization header carries, as its second word, a token signed
\* with the server's key and not expired at instant t.
CarriesValidToken(wire, t) ==
  LET h == wire.headers.authorization
  IN /\ h # Undefined
     /\ Len(h.words) >= 2
     /\ h.words[2].w = "jwt"
     /\ h.words[2].key = JWT_KEY
     /\ t < h.words[2].exp

\* C8: a correctly signed request to GET /quotes/:id or DELETE
\* /quotes/delete whose Authorization header carries no token, an empty
\* value or a token that fails verification is answered 401 'This request
\* is not authorized.'; isAuthenticatedRequestor returned false for it and
\* did not throw, and no handler ran.
C8_AccessTiering ==
  \A s \in Judged :
    LET d == inflight[s]
    IN /\ d.outcome = "accepted"
       /\ d.pc # "access"
       /\ d.route.endpoint \in AuthenticatedEndpoints
       /\ ~CarriesValidToken(d.wire, d.authAt)
       => /\ d.level = "Public"
          /\ d.pc = "done"
          /\ d.response
               = [status |-> 401,
                  data |-> [success |-> FALSE,
                            message |-> <<"This request is not authorized.">>]]
          /\ ~d.handled

C8_ExpiredTokenTurnedAway ==
  \E s \in Judged :
    /\ inflight[s].route.endpoint = "getQuote"
    /\ inflight[s].wire.headers.authorization = BearerHeader(ExpiredToken)
    /\ inflight[s].outcome = "accepted"
    /\ inflight[s].level = "Public"
    /\ inflight[s].pc = "done"
    /\ inflight[s].response.status = 401

\* The requestor of a deletion holds a valid token and is not the owner of
\* the quote, in store q, that the request names.
NonOwner(d, q) ==
  /\ CarriesValidToken(d.wire, d.authAt)
  /\ d.wire.data # Undefined
  /\ HasProp(d.wire.data, S_quoteId)
  /\ GetProp(d.wire.data, S_quoteId).t = "str"
  /\ GetProp(d.wire.data, S_quoteId).v \in DOMAIN q
  /\ GetProp(q[GetProp(d.wire.data, S_quoteId).v], S_ownerUserId)
       # JStr(d.wire.headers.authorization.words[2].payload.username)

\* C9: a DELETE /quotes/delete by a requestor with a valid token who does
\* not own the quote gets no further than the ownership evaluator: it is
\* rejected and no handler runs for it, so the quote stays in QUOTES.
C9_OwnershipIsolation ==
  \A s \in Judged :
    LET d == inflight[s]
    IN d.outcome = "accepted" /\ d.route.endpoint = "deleteQuote"
         /\ NonOwner(d, QUOTES)
       => \/ d.pc \in {"access", "owner"}
          \/ d.pc = "done" /\ ~d.handled /\ ~d.response.data.success

\* The quote of another user was deleted.
C9_NonOwnerDeleted ==
  \E s \in Judged :
    /\ inflight[s].route.endpoint = "deleteQuote"
    /\ inflight[s].owned = "notOwned"
    /\ inflight[s].handled
    /\ inflight[s].response.status = DefaultStatus
    /\ inflight[s].response.data.success
    /\ Decimal(9) \notin DOMAIN QUOTES
    /\ nBuilt = 3

\* The access-level check of the delivery in slot s has failed.
AccessCheckFailed(s) ==
  /\ inflight[s].pc \notin {"idle", "auth", "access"}
  /\ inflight[s].route.endpoint \in AuthenticatedEndpoints
  /\ inflight[s].level = "Public"

\* A delivery whose access-level check has failed is done, with neither its
\* handler nor the ownership evaluator invoked.
StoppedAtAccessCheck ==
  \A s \in Slots :
    AccessCheckFailed(s)
      => /\ inflight[s].pc = "done"
         /\ ~inflight[s].handled
         /\ inflight[s].owned = "none"

\* A step that changes QUOTES or the cache is a step of the ownership
\* evaluator or the handler of a delivery that passed its access check.
StoresChangeOnlyPastAccessCheck ==
  (QUOTES' # QUOTES \/ cache' # cache)
    => \E s \in Slots :
          /\ inflight[s].pc \in {"owner", "handler"}
          /\ inflight'[s] # inflight[s]
          /\ ~AccessCheckFailed(s)'

\* C10: a request whose access-level check fails ends there, with neither
\* its handler nor the ownership evaluator invoked, and QUOTES and the cache
\* change in no step but one of an ownership evaluator or a handler: they
\* are after such a request what they were before it.
C10_NoEffectWhenUnauthorized ==
  [][StoppedAtAccessCheck' /\ StoresChangeOnlyPastAccessCheck]_vars

C10_UnauthorizedAfterChanges ==
  /\ AccessCheckFailed("s1")
  /\ inflight["s1"].route.endpoint = "getQuote"
  /\ inflight["s1"].response.status = 401
  /\ authToken # Undefined
  /\ QUOTES # InitialQUOTES
  /\ QuoteKey(JStr(Decimal(0))) \notin DOMAIN cache


\* The rejections that precede the replay step of the authenticator.
RejectedBeforeReplayStep ==
  {"invalidCredentials", "invalidSignature", "stale"}

\* A step that rejects a delivery at one of these steps leaves the ledger as
\* it was.
RejectionLeavesLedger ==
  \A s \in Slots :
    (/\ inflight[s] # Idle
     /\ inflight[s].pc = "auth"
     /\ inflight'[s] # Idle
     /\ inflight'[s].outcome \in RejectedBeforeReplayStep)
      => ledger' = ledger

\* A delivery rejected as a replay carries the API key and the nonce of a
\* request that was accepted before it.
ReplayOnlyAfterAcceptance ==
  \A s \in Judged :
    inflight[s].outcome = "replay"
      => \E a \in accepted :
           /\ a.request.headers.apiKey = inflight[s].wire.headers.apiKey
           /\ a.request.headers.nonce = inflight[s].wire.headers.nonce

\* C11: a request rejected at the credential, signature or freshness step
\* inserts no nonce record, so the ledger is unchanged by it and a later
\* valid fresh request with the same nonce is not rejected as a replay.
C11_RejectionConsumesNoNonce ==
  [][RejectionLeavesLedger /\ ReplayOnlyAfterAcceptance']_vars

\* The one built request was delivered twice: the first delivery was
\* rejected, the second, with the same nonce, is accepted.
C11_AcceptedAfterRejection ==
  \E s \in Judged :
    /\ inflight[s].outcome = "accepted"
    /\ nBuilt = 1
    /\ nDelivered = 2
    /\ Cardinality(accepted) = 1

\* No request accepted before the delivery carried its API key and nonce.
NonceNotUsedBefore(d) ==
  /\ ~d.replayed
  /\ \A a \in accepted :
       (/\ a.request.headers.apiKey = d.wire.headers.apiKey
        /\ a.request.headers.nonce = d.wire.headers.nonce)
         => a.request = SignedRequest(d.wire)

\* C12: a rejected request does not lock the caller out: a request with a
\* nonce not used before, a timestamp inside the freshness window and a valid
\* signature is accepted by the authenticator, whatever happened to the
\* requests delivered before it.
C12_NoLockout ==
  \A s \in Judged :
    (/\ CorrectlySigned(inflight[s].wire)
     /\ InsideWindow(inflight[s].wire, inflight[s].authAt)
     /\ NonceNotUsedBefore(inflight[s]))
      => inflight[s].outcome = "accepted"

\* The request built first was delivered and every delivery of it rejected;
\* the request the client made after it is accepted.
C12_AcceptedAfterRejectedRequest ==
  \E s \in Judged :
    /\ inflight[s].outcome = "accepted"
    /\ lastRequest # Undefined
    /\ inflight[s].sent # lastRequest
    /\ nDelivered >= 1
    /\ accepted = {[request |-> SignedRequest(inflight[s].wire),
                    at |-> inflight[s].authAt]}

\* C13: the canonical message and the signature of a request do not depend
\* on the order in which the keys of its body were inserted: every body equal
\* to the body of the request as a JSON object, with its keys in another
\* order, has the canonical message and the signature of the request.
C13_KeyOrderIndependence ==
  \A s \in Slots :
    inflight[s] # Idle =>
      LET req == inflight[s].sent
      IN \A body \in Reorderings(req.data) :
           /\ CanonicalMessage(req.path, req.headers.date, req.headers.nonce,
                               req.method, body)
                = CanonicalMessageOf(req)
           /\ GenerateSignature(APP_KEY, req.path, req.headers.date,
                                req.headers.nonce, req.method, body)
                = req.headers.signature

\* A request whose body has its keys out of sorted order, at the top and
\* inside the nested object, was signed, accepted and handled.
C13_UnsortedBodyHandled ==
  \E s \in Judged :
    LET body == inflight[s].sent.data
    IN /\ inflight[s].handled
       /\ ObjectKeys(body) # SortKeys(ObjectKeys(body))
       /\ IsObject(GetProp(body, S_value))
       /\ ObjectKeys(GetProp(body, S_value))
            # SortKeys(ObjectKeys(GetProp(body, S_value)))

\* A field of an add-quote body that is missing, or a string with a character
\* outside [a-zA-Z0-9?.;,! ].
MissingOrMalformed(x) ==
  \/ x = Undefined
  \/ x.t = "str" /\ \E i \in 1..Len(x.v) : ~AllowedQuoteChar(x.v[i])

\* The bodies of the claim: author or content missing or malformed, or date
\* missing or empty.
FailsAddQuoteSchema(body) ==
  \/ MissingOrMalformed(GetProp(body, S_author))
  \/ MissingOrMalformed(GetProp(body, S_content))
  \/ GetProp(body, S_date) = Undefined
  \/ GetProp(body, S_date) = JStr(<<>>)

\* The add-quote requests the server has read whose body passes the schema.
WellFormedAdds ==
  {a \in accepted : ~FailsAddQuoteSchema(a.request.data)}

\* The quotes added so far: one for every well-formed add, the one being
\* processed excepted until its handler has run.
QuotesCountWellFormedAdds ==
  LET pending == {s \in Slots : /\ inflight[s] # Idle
                                /\ inflight[s].outcome = "accepted"
                                /\ ~inflight[s].handled
                                /\ ~FailsAddQuoteSchema(inflight[s].wire.data)}
  IN Cardinality(DOMAIN QUOTES)
       = Cardinality(DOMAIN InitialQUOTES) + Cardinality(WellFormedAdds)
           - Cardinality(pending)

\* C14: a PUT /quotes/add whose body fails the schema (author or content
\* missing or with a character outside [a-zA-Z0-9?.;,! ], date missing or
\* empty) is answered 400 'Invalid request. Invalid HTTP body.' and its
\* handler is not invoked; QUOTES holds one quote for every well-formed add
\* and none for the others, and a well-formed add receives the id it would
\* have received had the failing adds not been made.
C14_InvalidAddRejected ==
  /\ QuotesCountWellFormedAdds
  /\ \A s \in Judged :
       LET d == inflight[s]
       IN /\ (d.pc = "done" /\ d.outcome = "accepted"
                /\ FailsAddQuoteSchema(d.wire.data))
              => (d.response = InvalidBodyResponse /\ ~d.handled)
          /\ (d.pc = "done" /\ d.handled)
              => GetProp(d.response.data.quote, <<105, 100>>)
                   = JStr(Decimal(Cardinality(DOMAIN InitialQUOTES)
                                    + Cardinality(WellFormedAdds) - 1))

\* After an add with a failing body was answered, the add of the test
\* sequence is handled and its quote receives the id '9'.
C14_ValidAddAfterInvalidAdd ==
  \E s \in Judged :
    /\ inflight[s].pc = "done"
    /\ inflight[s].handled
    /\ GetProp(inflight[s].response.data.quote, <<105, 100>>) = JStr(Decimal(9))
    /\ \E a \in accepted : FailsAddQuoteSchema(a.request.data)
    /\ Cardinality(DOMAIN QUOTES) = 10

\* The declared parameter at place i is required and absent from the query,
\* or present with a value its validator refuses.
MissingOrRefused(i, query) ==
  LET p == SearchQueryParameters[i]
      value == QueryValue(query, p.name)
  IN IF value = Undefined THEN p.required
     ELSE ~IsValidQueryValue(p.validator, value.v)

\* The name of the first declared parameter that is missing or refused.
FirstMissingOrRefused(query) ==
  SearchQueryParameters[
    CHOOSE i \in DOMAIN SearchQueryParameters :
      /\ MissingOrRefused(i, query)
      /\ \A j \in 1..(i - 1) : ~MissingOrRefused(j, query)].name

\* C15: a GET /quotes/search without searchTerm is answered 400 'Missing
\* required parameter searchTerm' whatever other parameters it carries, and
\* the search handler is not invoked; in general a search whose query has a
\* declared parameter missing or refused is answered 400 with the name of
\* the first such parameter in the order of declaration, without the handler.
C15_MissingSearchTerm ==
  \A s \in Judged :
    LET d == inflight[s]
        query == ParseQuery(d.wire.path)
    IN (d.pc = "done" /\ d.outcome = "accepted" /\ d.route.endpoint = "search")
         => /\ QueryValue(query, S_searchTerm) = Undefined
                => /\ d.response
                        = [status |-> 400,
                           data |-> [success |-> FALSE,
                                     message |-> <<"Missing required parameter ",
                                                   S_searchTerm>>]]
                   /\ ~d.handled
            /\ (\E i \in DOMAIN SearchQueryParameters : MissingOrRefused(i, query))
                => /\ d.response.status = 400
                   /\ d.response.data.message[2] = FirstMissingOrRefused(query)
                   /\ ~d.handled

\* The search of the test sequence that lacks searchTerm and carries a valid
\* author, a valid ascendingSort and an undeclared sortBy was answered 400
\* without its handler.
C15_MissingTermAnswered ==
  \E s \in Judged :
    /\ inflight[s].pc = "done"
    /\ inflight[s].wire.path = Url_searchMissingTerm
    /\ inflight[s].route.endpoint = "search"
    /\ inflight[s].response.status = 400
    /\ ~inflight[s].handled

\* The user name of the body is USERNAME but for the case of its letters,
\* and the password of the body is PASSWORD.
ValidCredentials(body) ==
  /\ ToLowerCase(GetProp(body, S_username).v) = ToLowerCase(USERNAME)
  /\ GetProp(body, S_password).v = PASSWORD

\* C16: a login is answered 200 {success: true, authToken} if and only if
\* the user name of its body equals USERNAME ignoring case and its password
\* equals PASSWORD exactly, and 403 'Invalid username or password.'
\* otherwise; the login is handled whether or not the request carries a
\* session token.
C16_LoginIffCredentials ==
  \A s \in Judged :
    LET d == inflight[s]
    IN (d.pc = "done" /\ d.outcome = "accepted" /\ d.route.endpoint = "login")
         => /\ d.handled
            /\ d.response.status \in {200, 403}
            /\ d.response.status = 200 <=> ValidCredentials(d.wire.data)
            /\ d.response.status = 200
                 => /\ d.response.data.success
                    /\ d.response.data.authToken.w = "jwt"
            /\ d.response.status = 403
                 => /\ ~d.response.data.success
                    /\ d.response.data.error.message
                         = <<"Invalid username or password.">>

\* A login with the user name in upper case, sent without a session token,
\* was answered 200 with a token.
C16_UpperCaseLoginSucceeded ==
  \E s \in Judged :
    /\ inflight[s].pc = "done"
    /\ inflight[s].route.endpoint = "login"
    /\ inflight[s].wire.headers.authorization = EmptyHeader
    /\ GetProp(inflight[s].wire.data, S_username) # JStr(USERNAME)
    /\ inflight[s].response.status = 200
    /\ inflight[s].response.data.authToken.w = "jwt"

\* The token the client holds verifies at every instant before its expiry
\* and at none from its expiry on, and its claim is the lower-cased user name.
StoredTokenVerifies ==
  authToken # Undefined =>
    /\ authToken.payload.username = ToLowerCase(USERNAME)
    /\ authToken.exp > now
    /\ \A t \in {now, authToken.exp - 1} :
         VerifyToken(authToken, t) = [threw |-> FALSE, value |-> authToken.payload]
    /\ \A t \in {authToken.exp, authToken.exp + 1} :
         VerifyToken(authToken, t) = [threw |-> FALSE, value |-> Undefined]

\* C17: the token of a login verifies until it expires and claims the
\* lower-cased user name; a request the client builds while it holds the
\* token carries 'Bearer <token>' and passes the gate of an endpoint that
\* asks for an authenticated requestor, and the same request built before
\* any login carries no token and is answered 401 'This request is not
\* authorized.' without its handler.
C17_SessionToken ==
  /\ StoredTokenVerifies
  /\ \A s \in Slots :
       inflight[s] # Idle =>
         LET d == inflight[s]
         IN /\ d.sent.headers.authorization
                 = IF authToken = Undefined THEN EmptyHeader
                   ELSE BearerHeader(authToken)
            /\ (d.pc = "done" /\ d.route.endpoint = "getQuote"
                  /\ authToken # Undefined)
                 => (d.level = "Authenticated" /\ d.handled
                       /\ d.response.status = 200)
            /\ (d.pc = "done" /\ d.route.endpoint = "getQuote"
                  /\ authToken = Undefined)
                 => (d.response = UnauthorizedResponse /\ ~d.handled)

\* GET /quotes/0 was built with the stored token, passed the gate and was
\* answered with the quote.
C17_ReadWithStoredToken ==
  \E s \in Judged :
    /\ inflight[s].pc = "done"
    /\ inflight[s].route.endpoint = "getQuote"
    /\ authToken # Undefined
    /\ inflight[s].wire.headers.authorization = BearerHeader(authToken)
    /\ inflight[s].level = "Authenticated"
    /\ inflight[s].response.status = 200
    /\ now > 0

\* The registries the registrations of the server build when they are made
\* in another order.
RegistrationOrders ==
  { [i \in DOMAIN Registered |-> Registered[p[i]]] :
      p \in Permutations(DOMAIN Registered) }

LacksKeyOrValue(body) ==
  \/ GetProp(body, S_key) \in {Undefined, Null}
  \/ GetProp(body, S_value) \in {Undefined, Null}

\* The requests PUT /cache/add for key k, with key and value, that the server
\* read before the delivery d; the client draws its nonces in ascending
\* order, so the nonce tells which request came first.
AddsBefore(d, k) ==
  {a \in accepted :
     /\ a.request.method = S_PUT
     /\ a.request.path = S_cachePrefix \o S_add
     /\ ~LacksKeyOrValue(a.request.data)
     /\ GetProp(a.request.data, S_key) = JStr(k)
     /\ a.request.headers.nonce[1] < d.wire.headers.nonce[1]}

\* The last of them.
LastAddBefore(d, k) ==
  CHOOSE a \in AddsBefore(d, k) :
    \A o \in AddsBefore(d, k) :
      o.request.headers.nonce[1] <= a.request.headers.nonce[1]

\* C19: after a PUT /cache/add {key: k, value: v} without ttl has succeeded,
\* GET /cache/k is answered {success: true, value: v} until k is set again;
\* a body whose key or value is missing or null is refused by the validator
\* with 400 and sets nothing, so a GET after it is answered as before it.
C19_CacheRoundTrip ==
  \A s \in Judged :
    LET d == inflight[s]
    IN /\ (d.pc = "done" /\ d.route.endpoint = "getCacheValue"
             /\ AddsBefore(d, d.route.params) # {})
            => d.response
                 = [status |-> 200,
                    data |-> [success |-> TRUE,
                              value |-> GetProp(LastAddBefore(d, d.route.params)
                                                  .request.data, S_value)]]
       /\ (d.pc = "done" /\ d.route.endpoint = "getCacheValue"
             /\ AddsBefore(d, d.route.params) = {})
            => d.response.status = 404
       /\ (d.pc = "done" /\ d.route.endpoint = "addCacheValue"
             /\ LacksKeyOrValue(d.wire.data))
            => (d.response = InvalidBodyResponse /\ ~d.handled)
       /\ (d.pc = "done" /\ d.route.endpoint = "addCacheValue"
             /\ ~LacksKeyOrValue(d.wire.data))
            => (d.handled /\ d.response.status = 200)

\* myKey was set to 0, then an add without value was refused, and some time
\* later GET /cache/myKey is answered with the value 0.
C19_ValueReadAfterRefusedAdd ==
  \E s \in Judged :
    LET d == inflight[s]
    IN /\ d.pc = "done"
       /\ d.route.endpoint = "getCacheValue"
       /\ d.response.status = 200
       /\ d.response.data.value = JNum(0)
       /\ d.authAt > LastAddBefore(d, S_myKey).at
       /\ \E a \in accepted :
            /\ a.request.method = S_PUT
            /\ LacksKeyOrValue(a.request.data)
            /\ a.request.headers.nonce[1]
                 > LastAddBefore(d, S_myKey).request.headers.nonce[1]

\* The step in which the handler of a deletion runs: when QUOTES holds the
\* id, exactly that entry is removed and success reported; when it does not,
\* QUOTES stays as it is and the failure 'No quote with ID <id> found.' is
\* reported.
DeleteHandlerStep ==
  \A s \in Slots :
    (/\ inflight[s] # Idle
     /\ inflight[s].pc = "handler"
     /\ inflight[s].route.endpoint = "deleteQuote"
     /\ inflight'[s] # Idle
     /\ inflight'[s].pc = "done")
      => LET id == JsToString(GetProp(inflight[s].wire.data, S_quoteId))
         IN IF id \in DOMAIN QUOTES
              THEN /\ QUOTES' = [k \in DOMAIN QUOTES \ {id} |-> QUOTES[k]]
                   /\ inflight'[s].response.data.success
              ELSE /\ QUOTES' = QUOTES
                   /\ ~inflight'[s].response.data.success
                   /\ inflight'[s].response.data.error.message
                        = <<"No quote with ID ", id, " found.">>

\* C20: deleteQuote(id) removes exactly the entry id when QUOTES holds it and
\* leaves the others unchanged; when QUOTES does not hold it, the failure
\* 'No quote with ID <id> found.' is reported and QUOTES is unchanged; so of
\* two consecutive deletes of an id the first succeeds and the second fails.
C20_DeleteExactlyOnce == [][DeleteHandlerStep]_vars

\* The deletion of the id 'constructor', which QUOTES never held, was
\* answered as a success, with the nine quotes still in QUOTES.
C20_AbsentIdReportedDeleted ==
  \E s \in Judged :
    /\ inflight[s].pc = "done"
    /\ inflight[s].handled
    /\ inflight[s].route.endpoint = "deleteQuote"
    /\ GetProp(inflight[s].wire.data, S_quoteId) = JStr(S_constructor)
    /\ inflight[s].response.data.success
    /\ QUOTES = InitialQUOTES

(***************************************************************************)
(* The app methods of the revision of the server kept in unnamed/part_000, *)
(* registered one by one with registerAppMethod, and the scenario of a     *)
(* server that runs them: the client logs in, with the credentials of the  *)
(* user or with others, deletes quote 9, which the store does not hold,    *)
(* and reads a cache key that was never set.                               *)
(***************************************************************************)
\* getCacheValueMethod.requestHandler
GetCacheValueMethod(req, c, q, t) ==
  LET value == ValueForKey(c, req.params, t)
  IN Handled(DefaultStatus,
             IF IsNullish(value) THEN [success |-> FALSE]
             ELSE [success |-> TRUE, value |-> value],
             q, c)

\* deleteQuoteMethod.requestHandler
DeleteQuoteMethod(req, c, q, t) ==
  IF req.jsonBody.t # "obj" THEN Threw(q, c)
  ELSE
    LET quoteId == GetProp(req.jsonBody, S_quoteId)
        deleted == DeleteQuote(q, quoteId)
    IN IF ~deleted.threw
         THEN Handled(DefaultStatus,
                      [success |-> TRUE,
                       message |-> <<"Successfully deleted quote with ID ",
                                     JsToString(quoteId)>>],
                      deleted.QUOTES, c)
         ELSE Handled(DefaultStatus,
                      [success |-> FALSE, message |-> deleted.message], q, c)

\* loginMethod.requestHandler of the revision
LoginMethodHandler(req, c, q, t) ==
  IF req.jsonBody.t # "obj" THEN Threw(q, c)
  ELSE
    LET token == Login(GetProp(req.jsonBody, S_username),
                       GetProp(req.jsonBody, S_password), t)
    IN IF token.threw THEN Threw(q, c)
       ELSE IF token.value # Undefined
         THEN Handled(200, [success |-> TRUE, authToken |-> token.value], q, c)
         ELSE Handled(403,
                      [success |-> FALSE,
                       message |-> <<"Invalid username or password.">>],
                      q, c)

AppMethodHandler(endpoint, req, c, q, t) ==
  CASE endpoint = "login" -> LoginMethodHandler(req, c, q, t)
    [] endpoint = "getCacheValue" -> GetCacheValueMethod(req, c, q, t)
    [] endpoint = "deleteQuote" -> DeleteQuoteMethod(req, c, q, t)

\* The handler of an app method.
HandleAppMethod(s) ==
  LET d == inflight[s]
      req == ServerRequest(d.wire, d.route.params)
      r == AppMethodHandler(d.route.endpoint, req, cache, QUOTES, now)
  IN /\ d.pc = "handler"
     /\ QUOTES' = r.QUOTES
     /\ cache' = r.cache
     /\ inflight' =
          [inflight EXCEPT ![s] =
             Done([d EXCEPT !.handled = TRUE],
                  IF r.threw THEN InternalErrorResponse
                  ELSE [status |-> r.status, data |-> r.data])]
     /\ UNCHANGED <<now, ledger, authToken, lastRequest, accepted, nBuilt,
                    nDelivered>>

Body_loginInvalid ==  \* 'someInvalidUsername@invalid.com' / 'HELLO0Invalid'
  JObj(<<Prop(S_username, JStr(<<115, 111, 109, 101, 73, 110, 118, 97, 108, 105, 100, 85, 115, 101, 114, 110, 97, 109, 101, 64, 105, 110, 118, 97, 108, 105, 100, 46, 99, 111, 109>>)),
         Prop(S_password, JStr(<<72, 69, 76, 76, 79, 48, 73, 110, 118, 97, 108, 105, 100>>))>>)

AppMethodCalls ==
  { Call(S_POST, S_login, Body_login),
    Call(S_POST, S_login, Body_loginInvalid),
    Call(S_DELETE, S_quotesPrefix \o S_delete, Body_deleteQuote),
    Call(S_GET, S_cachePrefix \o S_myKey, Undefined) }

NextAppMethods ==
  \/ \E call \in AppMethodCalls : MakeRequest("s1", call, FreshNonce, "asBuilt")
  \/ Authenticate("s1")
  \/ Authorize("s1")
  \/ Ownership("s1")
  \/ HandleAppMethod("s1")
  \/ Receive("s1")

SpecAppMethods == Init /\ [][NextAppMethods]_vars

\* The handler of the endpoint answered the delivery, and its answer reports
\* a failure.
HandlerReportedFailure(d) ==
  /\ d # Idle
  /\ d.pc = "done"
  /\ d.handled
  /\ d.response # InternalErrorResponse
  /\ ~d.response.data.success

\* C21: every response of a handler that reports a failure (success: false:
\* cache key not found, quote not found, delete of a missing quote, bad
\* login) carries the status the handler set, 404 or 403, never the default
\* status 200.
C21_FailureStatusExplicit ==
  \A s \in Slots :
    HandlerReportedFailure(inflight[s])
      => inflight[s].response.status \in {403, 404}

\* The deletion of quote 9, which the store does not hold, was answered
\* {success: false, message: 'No quote with ID 9 found.'} with the default
\* status.
C21_MissingDeleteAnsweredOk ==
  \E s \in Slots :
    /\ HandlerReportedFailure(inflight[s])
    /\ inflight[s].route.endpoint = "deleteQuote"
    /\ inflight[s].response.status = DefaultStatus
    /\ QUOTES = InitialQUOTES

(***************************************************************************)
(* The quotes scenario: the client logs in, reads quote 8 and quote 9,     *)
(* deletes quote 8 and adds a quote, in any order and more than once, each *)
(* request awaited before the next is made.                                *)
(***************************************************************************)
\* makeRequest(url, httpMethod, jsonBody) of a test sequence of up to
\* MaxCalls requests.
SequenceRequest(s, call) ==
  /\ nBuilt < MaxCalls
  /\ \A o \in Slots : inflight[o] = Idle
  /\ inflight' =
       [inflight EXCEPT ![s] =
          Delivery(ClientRequest(call.path, call.method, call.body, FreshNonce,
                                 now, authToken), "asBuilt")]
  /\ nBuilt' = nBuilt + 1
  /\ UNCHANGED <<now, QUOTES, cache, ledger, authToken, lastRequest, accepted,
                 nDelivered>>

QuotesCalls ==
  { Call(S_POST, S_login, Body_login),
    Call(S_GET, S_quotesPrefix \o Decimal(8), Undefined),
    Call(S_GET, S_quotesPrefix \o Decimal(9), Undefined),
    Call(S_DELETE, S_quotesPrefix \o S_delete,
         WithProp(Body_deleteQuote, S_quoteId, JStr(Decimal(8)))),
    Call(S_PUT, S_quotesPrefix \o S_add, Body_addQuote) }

NextQuotes ==
  \/ \E call \in QuotesCalls : SequenceRequest("s1", call)
  \/ Authenticate("s1")
  \/ Authorize("s1")
  \/ Ownership("s1")
  \/ Handle("s1")
  \/ Receive("s1")

SpecQuotes == Init /\ [][NextQuotes]_vars

\* The handler of the endpoint runs for the delivery in slot s.
HandlerStep(s, endpoint) ==
  /\ inflight[s] # Idle
  /\ inflight[s].pc = "handler"
  /\ inflight[s].route.endpoint = endpoint
  /\ inflight'[s] # Idle
  /\ inflight'[s].pc = "done"

\* The step of the handler of an addition: the quote returned has the id
\* that is the number of quotes stored, the three fields of the body and
\* the owner 'newb', and is stored under its id, the rest of QUOTES staying
\* as it is.
AddQuoteStep ==
  \A s \in Slots :
    HandlerStep(s, "addQuote")
      => LET body == inflight[s].wire.data
             id == Decimal(Cardinality(DOMAIN QUOTES))
             data == inflight'[s].response.data
         IN /\ data.success
            /\ KeyCount(data.quote) = 5
            /\ GetProp(data.quote, <<105, 100>>) = JStr(id)  \* "id"
            /\ GetProp(data.quote, S_content) = GetProp(body, S_content)
            /\ GetProp(data.quote, S_author) = GetProp(body, S_author)
            /\ GetProp(data.quote, S_date) = GetProp(body, S_date)
            /\ GetProp(data.quote, S_ownerUserId) = JStr(S_newb)
            /\ DOMAIN QUOTES' = DOMAIN QUOTES \cup {id}
            /\ QUOTES'[id] = data.quote
            /\ \A k \in DOMAIN QUOTES \ {id} : QUOTES'[k] = QUOTES[k]

\* The step of the handler of a read: an added quote that the store holds
\* under the id is the quote returned.
GetAddedQuoteStep ==
  \A s \in Slots :
    HandlerStep(s, "getQuote")
      => LET id == inflight[s].route.params
         IN (/\ id \in DOMAIN QUOTES
             /\ GetProp(QUOTES[id], S_ownerUserId) = JStr(S_newb))
              => /\ inflight'[s].response.data.success
                 /\ inflight'[s].response.data.quote = QUOTES[id]

\* C22: addQuote(content, author, date) stores and returns a quote with
\* exactly those three fields, the owner 'newb' whoever the caller is, and
\* the id that is the decimal number of quotes in the store before the call
\* ('9' on the initial nine quotes); a following GET /quotes/<id> returns
\* that same quote.
C22_AddThenGet == [][AddQuoteStep /\ GetAddedQuoteStep]_vars

\* Quote 8 was deleted and a quote added, which took the id 8; the read of
\* quote 8 that followed returned the quote deleted, not the one stored.
C22_ReadReturnedDeletedQuote ==
  \E s \in Slots :
    /\ inflight[s] # Idle
    /\ inflight[s].pc = "done"
    /\ inflight[s].handled
    /\ inflight[s].route.endpoint = "getQuote"
    /\ inflight[s].route.params = Decimal(8)
    /\ Decimal(8) \in DOMAIN QUOTES
    /\ GetProp(QUOTES[Decimal(8)], S_ownerUserId) = JStr(S_newb)
    /\ inflight[s].response.data.success
    /\ inflight[s].response.data.quote = InitialQUOTES[Decimal(8)]

(***************************************************************************)
(* The search scenario of the data manager: searchQuotes is called with    *)
(* search terms, authors, sort keys and sort directions of the test        *)
(* sequence, in other letter cases, empty, or not given, on the initial    *)
(* store and on the store after quotes were added through the endpoint.    *)
(***************************************************************************)
SearchTerms ==
  { <<116, 104, 101>>,  \* "the"
    <<84, 72, 69>>,  \* "THE"
    <<108, 105, 118, 101>>,  \* "live"
    <<32>>,  \* " "
    <<103, 97, 109, 111, 114, 97>>,  \* "gamora"
    <<>> }

SearchAuthors ==
  { Undefined,
    JStr(<<>>),
    JStr(Q2_author),  \* 'William Shakespeare'
    JStr(ToLowerCase(Q2_author)),
    JStr(GetProp(Body_addQuote, S_author).v) }

SearchSortKeys ==
  {Undefined, JStr(<<>>), JStr(S_date), JStr(S_content), JStr(S_author),
   JStr(<<105, 100>>)}  \* "id"

SearchSortDirections == {Undefined, JBool(TRUE), JBool(FALSE)}

\* dataManager.searchQuotes(searchTerm, author, sortKey, ascendingSort): the
\* call and the array it returned are kept until the caller is done with
\* them.
CallSearchQuotes(s, searchTerm, author, sortKey, ascendingSort) ==
  LET r == SearchQuotes(QUOTES, JStr(searchTerm), author, sortKey, ascendingSort)
  IN /\ \A o \in Slots : inflight[o] = Idle
     /\ ~r.threw
     /\ inflight' =
          [inflight EXCEPT ![s] =
             [pc |-> "done",
              route |-> [endpoint |-> "searchQuotes", params |-> <<>>],
              call |-> [searchTerm |-> searchTerm, author |-> author,
                        sortKey |-> sortKey, ascendingSort |-> ascendingSort],
              handled |-> FALSE,
              response |-> [status |-> DefaultStatus,
                            data |-> [success |-> TRUE, quotes |-> r.value]]]]
     /\ UNCHANGED <<now, QUOTES, cache, ledger, authToken, lastRequest,
                    accepted, nBuilt, nDelivered>>

SearchQuotesAdds ==  \* 'Why is Gamora?', filed under 'william shakespeare'
  { Call(S_PUT, S_quotesPrefix \o S_add,
         WithProp(Body_addQuote, S_author, JStr(ToLowerCase(Q2_author)))) }

NextSearchQuotes ==
  \/ \E searchTerm \in SearchTerms, author \in SearchAuthors,
        sortKey \in SearchSortKeys, ascendingSort \in SearchSortDirections :
       CallSearchQuotes("s1", searchTerm, author, sortKey, ascendingSort)
  \/ \E call \in SearchQuotesAdds : MakeRequest("s1", call, FreshNonce, "asBuilt")
  \/ Authenticate("s1")
  \/ Authorize("s1")
  \/ Handle("s1")
  \/ Receive("s1")

SpecSearchQuotes == Init /\ [][NextSearchQuotes]_vars

\* searchQuotes has been called and has returned in slot s.
SearchQuotesReturned(s) ==
  /\ inflight[s] # Idle
  /\ inflight[s].pc = "done"
  /\ inflight[s].route.endpoint = "searchQuotes"

\* The same text but for the case of its letters.
EqualIgnoringCase(a, b) == ToLowerCase(a) = ToLowerCase(b)

ContainsIgnoringCase(text, sub) ==
  \E i \in 0..(Len(text) - Len(sub)) :
    EqualIgnoringCase(SubSeq(text, i + 1, i + Len(sub)), sub)

\* The ids of the quotes of QUOTES that a search asks for.  An author that
\* is not given, or is the empty string, asks for every author.
Wanted(call) ==
  { k \in DOMAIN QUOTES :
      /\ ContainsIgnoringCase(GetProp(QUOTES[k], S_content).v, call.searchTerm)
      /\ (call.author # Undefined /\ call.author.v # <<>>)
           => EqualIgnoringCase(GetProp(QUOTES[k], S_author).v, call.author.v) }

\* C23: searchQuotes(searchTerm, author, ...) returns exactly the quotes of
\* QUOTES whose content contains searchTerm ignoring case and, when author
\* is given, whose author equals it ignoring case; no other quote is
\* returned, none is returned twice, and QUOTES is not modified.
C23_SearchReturnsMatches ==
  [][\A s \in Slots :
       (inflight[s] = Idle /\ SearchQuotesReturned(s)')
         => LET quotes == inflight'[s].response.data.quotes
            IN /\ {quotes[i] : i \in DOMAIN quotes}
                    = {QUOTES[k] : k \in Wanted(inflight'[s].call)}
               /\ Len(quotes) = Cardinality(Wanted(inflight'[s].call))
               /\ QUOTES' = QUOTES]_vars

\* After a quote by 'william shakespeare' was added, the search for 'THE'
\* among the quotes of 'William Shakespeare' returned quotes 2 and 8 and no
\* other, the store holding ten quotes.
C23_SearchedByAuthorInOtherCase ==
  \E s \in Slots :
    /\ SearchQuotesReturned(s)
    /\ inflight[s].call.searchTerm = <<84, 72, 69>>
    /\ inflight[s].call.author = JStr(Q2_author)
    /\ Cardinality(DOMAIN QUOTES) = 10
    /\ {GetProp(inflight[s].response.data.quotes[i], <<105, 100>>).v :
          i \in DOMAIN inflight[s].response.data.quotes}
         = {Decimal(2), Decimal(8)}

\* a > b is false for the strings a and b, compared by UTF-16 code units.
NotGreater(a, b) == ~StrLess(b, a)

\* C24: when sortKey is one of date, content or author, the result of
\* searchQuotes is ordered by the string comparison of that field,
\* non-decreasing when ascendingSort is true or not given and non-increasing
\* when it is false; when sortKey is not given or not one of the three, the
\* matches are returned in store order, the order in which Object.values
\* enumerates QUOTES.
C24_SearchOrdered ==
  \A s \in Slots :
    SearchQuotesReturned(s)
      => LET call == inflight[s].call
             quotes == inflight[s].response.data.quotes
             Field(i, key) == GetProp(quotes[i], key).v
         IN \A i, j \in DOMAIN quotes :
              i < j =>
                IF call.sortKey \in {JStr(S_date), JStr(S_content), JStr(S_author)}
                  THEN IF call.ascendingSort = JBool(FALSE)
                         THEN NotGreater(Field(j, call.sortKey.v),
                                         Field(i, call.sortKey.v))
                         ELSE NotGreater(Field(i, call.sortKey.v),
                                         Field(j, call.sortKey.v))
                  ELSE DecimalLess(Field(i, <<105, 100>>), Field(j, <<105, 100>>))

\* The search of the test sequence for ' ' sorted by author, descending, on
\* the initial store returned the quotes 2, 8, 3, 0, 4, 6, 7, 1, 5.
C24_SortedByAuthorDescending ==
  \E s \in Slots :
    /\ SearchQuotesReturned(s)
    /\ inflight[s].call
         = [searchTerm |-> <<32>>, author |-> Undefined,
            sortKey |-> JStr(S_author), ascendingSort |-> JBool(FALSE)]
    /\ [i \in DOMAIN inflight[s].response.data.quotes |->
          GetProp(inflight[s].response.data.quotes[i], <<105, 100>>).v]
         = <<Decimal(2), Decimal(8), Decimal(3), Decimal(0), Decimal(4),
             Decimal(6), Decimal(7), Decimal(1), Decimal(5)>>

(***************************************************************************)
(* The signing scenario: the client builds requests for URLs written with  *)
(* scheme and host, some of which differ in scheme, host or query string   *)
(* only, and one with a cache key that holds a dot; its nonces may come    *)
(* out equal.  A request built may be sent, as built.                      *)
(***************************************************************************)
Url_cacheAdd ==  \* http://localhost:3000/cache/add
  <<104, 116, 116, 112, 58, 47, 47, 108, 111, 99, 97, 108, 104, 111, 115, 116, 58, 51, 48, 48, 48, 47, 99, 97, 99, 104, 101, 47, 97, 100, 100>>
Url_searchLiveByDate ==  \* http://localhost:3000/quotes/search?searchTerm=live&sortKey=date
  <<104, 116, 116, 112, 58, 47, 47, 108, 111, 99, 97, 108, 104, 111, 115, 116, 58, 51, 48, 48, 48, 47, 113, 117, 111, 116, 101, 115, 47, 115, 101, 97, 114, 99, 104, 63, 115, 101, 97, 114, 99, 104, 84, 101, 114, 109, 61, 108, 105, 118, 101, 38, 115, 111, 114, 116, 75, 101, 121, 61, 100, 97, 116, 101>>
Url_searchTheSecure ==  \* https://localhost:3000/quotes/search?searchTerm=the
  <<104, 116, 116, 112, 115, 58, 47, 47, 108, 111, 99, 97, 108, 104, 111, 115, 116, 58, 51, 48, 48, 48, 47, 113, 117, 111, 116, 101, 115, 47, 115, 101, 97, 114, 99, 104, 63, 115, 101, 97, 114, 99, 104, 84, 101, 114, 109, 61, 116, 104, 101>>
Url_searchTheOtherHost ==  \* http://127.0.0.1:3000/quotes/search?searchTerm=the
  <<104, 116, 116, 112, 58, 47, 47, 49, 50, 55, 46, 48, 46, 48, 46, 49, 58, 51, 48, 48, 48, 47, 113, 117, 111, 116, 101, 115, 47, 115, 101, 97, 114, 99, 104, 63, 115, 101, 97, 114, 99, 104, 84, 101, 114, 109, 61, 116, 104, 101>>
Url_cacheDottedKey ==  \* http://localhost:3000/cache/my.key
  <<104, 116, 116, 112, 58, 47, 47, 108, 111, 99, 97, 108, 104, 111, 115, 116, 58, 51, 48, 48, 48, 47, 99, 97, 99, 104, 101, 47, 109, 121, 46, 107, 101, 121>>

SigningCalls ==
  { Call(S_PUT, Url_cacheAdd, Body_cacheAdd),
    Call(S_GET, Url_searchLiveByDate, Undefined),
    Call(S_GET, Url_searchTheSecure, Undefined),
    Call(S_GET, Url_searchTheOtherHost, Undefined),
    Call(S_GET, Url_cacheDottedKey, Undefined) }

NextSigning ==
  \/ \E call \in SigningCalls, nonce \in Nonces :
       inflight["s1"] = Idle /\ Build(call, nonce, 0)
  \/ Send("s1", "asBuilt")
  \/ Authenticate("s1")
  \/ Authorize("s1")
  \/ Handle("s1")
  \/ Receive("s1")

SpecSigning == Init /\ [][NextSigning]_vars

\* The step in which request(url, verb, body) returns a request: its
\* signature is the one of the pathname of its URL, its Date header, its
\* nonce header, its verb and its body under the app key, and nothing is
\* sent or changed at the server.
RequestBuiltStep ==
  lastRequest' # lastRequest
    => /\ lastRequest'.headers.signature
            = GenerateSignature(APP_KEY, Pathname(lastRequest'.path),
                                lastRequest'.headers.date,
                                lastRequest'.headers.nonce,
                                lastRequest'.method, lastRequest'.data)
       /\ UNCHANGED <<inflight, nDelivered, accepted, ledger, QUOTES, cache>>

\* C25: for every request built by request(url, verb, body), the X-Signature
\* header equals generateSignature(appKey, pathname(url), value of the Date
\* header, value of the X-Signature-Nonce header, verb, body); building the
\* request sends nothing.
C25_SignatureOfEmittedHeaders == [][RequestBuiltStep]_vars

\* A request with a body and a query-less URL, and one with a query string,
\* have been built; the second is the request built last and nothing of it
\* has reached the server.
C25_BuiltAndNotSent ==
  /\ lastRequest # Undefined
  /\ lastRequest.path = Url_searchLiveByDate
  /\ nBuilt = 2
  /\ nDelivered = 1
  /\ \E a \in accepted : a.request.data = Body_cacheAdd
  /\ \A a \in accepted :
       a.request.headers.signature # lastRequest.headers.signature

\* The five components that generateSignature joins for a request: URL
\* path, verb, nonce, timestamp and what the message holds after them, the
\* base64 body.
SignedComponents(req) ==
  LET first == <<Pathname(req.path), req.method, req.headers.nonce,
                 req.headers.date>>
      message == req.headers.signature.msg
  IN first \o <<SubSeq(message, Len(Join(first, <<46>>)) + 2, Len(message))>>

\* C26: none of the five components joined by '.' into the canonical message
\* contains the character '.', so a canonical message splits back into its
\* five fields in exactly one way.
C26_DelimiterInNoField ==
  lastRequest # Undefined
    => /\ \A i \in 1..5 :
            \A j \in DOMAIN SignedComponents(lastRequest)[i] :
              SignedComponents(lastRequest)[i][j] # 46
       /\ Split(lastRequest.headers.signature.msg, 46)
            = SignedComponents(lastRequest)

\* The request for the cache key 'my.key' has been built: its path holds
\* the delimiter and its canonical message splits at six places.
C26_DottedPathSigned ==
  /\ lastRequest # Undefined
  /\ lastRequest.path = Url_cacheDottedKey
  /\ Len(Split(lastRequest.headers.signature.msg, 46)) = 6
  /\ SignedComponents(lastRequest)[1] = S_cachePrefix \o <<109, 121, 46, 107, 101, 121>>

\* The URLs are the same but for scheme, host or query string.
DifferInSchemeHostOrQueryOnly(u, v) ==
  SubSeq(RequestTarget(u), 1, IndexOf(RequestTarget(u), 63) - 1)
    = SubSeq(RequestTarget(v), 1, IndexOf(RequestTarget(v), 63) - 1)

\* C27: the signed path is the URL pathname only: two requests whose URLs
\* differ only in scheme, host or query string have the same canonical
\* message and signature for equal key, nonce, timestamp, verb and body.
C27_QueryNotSigned ==
  \A a \in accepted :
    (/\ lastRequest # Undefined
     /\ DifferInSchemeHostOrQueryOnly(a.request.path, lastRequest.path)
     /\ a.request.headers.nonce = lastRequest.headers.nonce
     /\ a.request.headers.date = lastRequest.headers.date
     /\ a.request.method = lastRequest.method
     /\ a.request.data = lastRequest.data)
      => /\ a.request.headers.signature.msg = lastRequest.headers.signature.msg
         /\ a.request.headers.signature = lastRequest.headers.signature

\* The search for 'live' sorted by date was accepted, and the request built
\* last, for another host and another query with the same nonce at the same
\* time, carries the same signature.
C27_SameSignatureOtherQuery ==
  /\ lastRequest # Undefined
  /\ lastRequest.path = Url_searchTheOtherHost
  /\ \E a \in accepted :
       /\ a.request.path = Url_searchLiveByDate
       /\ a.request.headers.nonce = lastRequest.headers.nonce
       /\ a.request.headers.date = lastRequest.headers.date
       /\ a.request.headers.signature = lastRequest.headers.signature

\* The ownership evaluator answers for the deletion in slot s, which carries
\* a session token that verifies.
OwnsStep(s) ==
  /\ inflight[s] # Idle
  /\ inflight[s].pc = "owner"
  /\ inflight[s].route.endpoint = "deleteQuote"
  /\ inflight'[s] # inflight[s]
  /\ LET req == ServerRequest(inflight[s].wire, inflight[s].route.params)
         claim == VerifyToken(GetAuthToken(req), now)
     IN /\ req.jsonBody.t = "obj"
        /\ Truthy(GetAuthToken(req))
        /\ ~claim.threw
        /\ claim.value # Undefined

\* The quote of the store that the body of the deletion in slot s names.
QuoteNamed(s) ==
  LET req == ServerRequest(inflight[s].wire, inflight[s].route.params)
  IN QuotesLookup(QUOTES, GetProp(req.jsonBody, S_quoteId))

\* The user of the session token of the delivery in slot s.
SessionUser(s) ==
  LET req == ServerRequest(inflight[s].wire, inflight[s].route.params)
  IN JStr(VerifyToken(GetAuthToken(req), now).value.username)

\* C28: for a DELETE /quotes/delete request that carries a valid session
\* token, the ownership evaluator returns true if and only if the username
\* claim of the token equals the ownerUserId of the quote named by
\* body.quoteId, and returns false when no such quote exists.
C28_OwnsComparesRecordedOwner ==
  [][\A s \in Slots :
       OwnsStep(s)
         => inflight'[s].owned
              = IF /\ QuoteNamed(s).t = "obj"
                   /\ SessionUser(s) = OwnerUserId(QuoteNamed(s))
                  THEN "owned" ELSE "notOwned"]_vars

\* The evaluator has answered true for a deletion of a quote that QUOTES
\* does not hold: the quote was deleted by the request before.
C28_OwnedDeletedQuote ==
  \E s \in Slots :
    /\ inflight[s] # Idle
    /\ inflight[s].pc = "handler"
    /\ inflight[s].route.endpoint = "deleteQuote"
    /\ inflight[s].owned = "owned"
    /\ QuoteNamed(s) = Undefined
    /\ nBuilt = 3

(***************************************************************************)
(* makeRequest.  The call of axios(request) is the one place where the     *)
(* client sends; the promise it returns settles with the response when the *)
(* status is one axios accepts, with an Axios error that holds the         *)
(* response when it is not, with an Axios error that holds none when the   *)
(* transport failed, or with an error that is not an Axios error.          *)
(***************************************************************************)
\* The default validateStatus of axios.
ValidateStatus(status) == status >= 200 /\ status < 300

AxiosFailures == {"none", "network", "other"}

\* How the promise of axios(request) settles.
AxiosSettled(response, failure) ==
  CASE failure = "other" ->
         [resolved |-> FALSE, isAxiosError |-> FALSE, response |-> Undefined]
    [] failure = "network" ->
         [resolved |-> FALSE, isAxiosError |-> TRUE, response |-> Undefined]
    [] OTHER ->
         [resolved |-> ValidateStatus(response.status),
          isAxiosError |-> ~ValidateStatus(response.status),
          response |-> response]

\* What makeRequest does once the promise has settled: the value it returns,
\* or that it threw.
MakeRequestSettled_Throws(settled) ==
  IF settled.resolved
    THEN [threw |-> FALSE, value |-> settled.response.data]
    ELSE [threw |-> TRUE, value |-> Undefined]

MakeRequestSettled(settled) ==
  IF settled.resolved
    THEN [threw |-> FALSE, value |-> settled.response.data]
  ELSE IF settled.isAxiosError
    THEN [threw |-> FALSE,
          value |-> IF settled.response = Undefined THEN Undefined
                    ELSE settled.response.data]
  ELSE [threw |-> TRUE, value |-> Undefined]

\* No call of makeRequest is waiting for axios.
NoneAwaited ==
  \A o \in Slots : inflight[o].pc \in {"idle", "returned", "thrown"}

\* makeRequest(request) up to its await: axios(request) sends the request.
AxiosCall(s, call) ==
  /\ nBuilt < MaxSequence
  /\ NoneAwaited
  /\ inflight' =
       [inflight EXCEPT ![s] =
          Delivery(ClientRequest(call.path, call.method, call.body, FreshNonce,
                                 now, authToken), "asBuilt")]
  /\ nBuilt' = nBuilt + 1
  /\ nDelivered' = nDelivered + 1
  /\ UNCHANGED <<now, QUOTES, cache, ledger, authToken, lastRequest, accepted>>

\* makeRequest from its await on: the promise settles, with the response of
\* the server unless the transport or something else failed, and
\* makeRequest returns or throws.
AxiosSettles(s, failure) ==
  LET d == inflight[s]
      settled == AxiosSettled(d.response, failure)
      r == MakeRequestSettled(settled)
  IN /\ d.pc \in {"auth", "done"}
     /\ failure = "none" => d.pc = "done"
     /\ failure = "network" => d.pc = "auth"
     /\ inflight' =
          [inflight EXCEPT ![s] =
             [pc |-> IF r.threw THEN "thrown" ELSE "returned",
              sent |-> d.sent, settled |-> settled, value |-> r.value]]
     /\ UNCHANGED <<now, QUOTES, cache, ledger, authToken, lastRequest,
                    accepted, nBuilt, nDelivered>>

MakeRequestCalls ==
  { Call(S_POST, S_login, Body_loginInvalid),
    Call(S_GET, S_cachePrefix \o S_myKey, Undefined),
    Call(S_PUT, S_cachePrefix \o S_add, Body_cacheAdd) }

NextMakeRequest ==
  \/ \E call \in MakeRequestCalls : AxiosCall("s1", call)
  \/ Authenticate("s1")
  \/ Authorize("s1")
  \/ Handle("s1")
  \/ \E failure \in AxiosFailures : AxiosSettles("s1", failure)

SpecMakeRequest == Init /\ [][NextMakeRequest]_vars

\* The promise of the call in slot s settles in this step.
SettlesStep(s) ==
  /\ inflight[s].pc \in {"auth", "done"}
  /\ inflight'[s].pc \notin {"idle", "auth", "access", "owner", "handler", "done"}

\* C29: makeRequest performs exactly one HTTP attempt per call and never
\* retries: for an HTTP error response it returns that response's body
\* instead of throwing, and an error that is not an Axios error is rethrown
\* to the caller.
C29_OneAttemptNoRetry ==
  [][/\ nDelivered' = nBuilt'
     /\ \A s \in Slots :
          SettlesStep(s)
            => LET settled == inflight'[s].settled
               IN /\ UNCHANGED <<nBuilt, nDelivered>>
                  /\ \A o \in Slots :
                       inflight'[o].pc \in {"idle", "returned", "thrown"}
                  /\ (/\ inflight[s].pc = "done"
                      /\ settled.response = inflight[s].response
                      /\ ~ValidateStatus(settled.response.status))
                       => /\ inflight'[s].pc = "returned"
                          /\ inflight'[s].value = inflight[s].response.data
                  /\ (~settled.resolved /\ ~settled.isAxiosError)
                       => inflight'[s].pc = "thrown"]_vars

\* The second call of makeRequest has returned the body of the 404 that
\* answers the read of a cache key that is not there: two calls, two
\* attempts.
C29_ReturnedErrorBody ==
  /\ inflight["s1"].pc = "returned"
  /\ inflight["s1"].settled.response # Undefined
  /\ inflight["s1"].settled.response.status = 404
  /\ inflight["s1"].value = inflight["s1"].settled.response.data
  /\ inflight["s1"].value.success = FALSE
  /\ nBuilt = 2
  /\ nDelivered = 2

\* The step of the handler of GET /quotes/<id> for a quote of the initial
\* store that QUOTES does not hold: the quote was deleted and no quote has
\* been added under its id since.  getQuoteWithId returns no quote, so the
\* response carries none.
GetDeletedQuoteStep ==
  \A s \in Slots :
    HandlerStep(s, "getQuote")
      => LET id == inflight[s].route.params
         IN (id \in DOMAIN InitialQUOTES /\ id \notin DOMAIN QUOTES)
              => /\ GetQuoteWithId(cache, QUOTES, JStr(id), now).quote = Undefined
                 /\ "quote" \notin DOMAIN inflight'[s].response.data

\* C30: after deleteQuote(id) has succeeded, getQuoteWithId(id), and so
\* GET /quotes/<id>, returns no quote in every later state until a quote
\* with that id is added again, whether or not the quote had been read, and
\* thereby cached under 'quote:<id>', before it was deleted.
C30_DeletedQuoteNotRead == [][GetDeletedQuoteStep]_vars

\* Quote 8 was deleted, no request had read it before and none has added a
\* quote since; the read that followed was answered with the quote.
C30_ReadAfterDelete ==
  \E s \in Slots :
    /\ inflight[s] # Idle
    /\ inflight[s].pc = "done"
    /\ inflight[s].handled
    /\ inflight[s].route.endpoint = "getQuote"
    /\ inflight[s].route.params = Decimal(8)
    /\ Decimal(8) \notin DOMAIN QUOTES
    /\ nBuilt = 3
    /\ inflight[s].response.data.success
    /\ inflight[s].response.data.quote = InitialQUOTES[Decimal(8)]

(***************************************************************************)
(* The scenario of deletions followed by additions: after the login, quote *)
(* 0 is deleted and quotes are added, one request after the other.         *)
(***************************************************************************)
AddAfterDeleteCalls ==
  { Call(S_POST, S_login, Body_login),
    Call(S_DELETE, S_quotesPrefix \o S_delete,
         WithProp(Body_deleteQuote, S_quoteId, JStr(Decimal(0)))),
    Call(S_PUT, S_quotesPrefix \o S_add, Body_addQuote) }

NextAddAfterDelete ==
  \/ \E call \in AddAfterDeleteCalls : SequenceRequest("s1", call)
  \/ Authenticate("s1")
  \/ Authorize("s1")
  \/ Ownership("s1")
  \/ Handle("s1")
  \/ Receive("s1")

SpecAddAfterDelete == Init /\ [][NextAddAfterDelete]_vars

\* The step of the handler of an addition enlarges QUOTES by one entry,
\* under an id that was not a key, and leaves the entries that were there.
AddEnlargesStep ==
  \A s \in Slots :
    HandlerStep(s, "addQuote")
      => /\ Decimal(Cardinality(DOMAIN QUOTES)) \notin DOMAIN QUOTES
         /\ Cardinality(DOMAIN QUOTES') = Cardinality(DOMAIN QUOTES) + 1
         /\ \A k \in DOMAIN QUOTES : k \in DOMAIN QUOTES' /\ QUOTES'[k] = QUOTES[k]

\* C31: addQuote never overwrites an existing quote: after any sequence of
\* adds and deletes, the id it assigns is not a key of QUOTES at the time of
\* the call, so every add enlarges QUOTES by exactly one entry and leaves
\* all existing entries unchanged.
C31_AddNeverOverwrites == [][AddEnlargesStep]_vars

\* Quote 0 was deleted and a quote added: the store holds eight quotes, and
\* under the id 8 the quote added in place of the one by William
\* Shakespeare.
C31_AddOverwroteQuote ==
  \E s \in Slots :
    /\ inflight[s] # Idle
    /\ inflight[s].pc = "done"
    /\ inflight[s].handled
    /\ inflight[s].route.endpoint = "addQuote"
    /\ Decimal(0) \notin DOMAIN QUOTES
    /\ Cardinality(DOMAIN QUOTES) = 8
    /\ QUOTES[Decimal(8)] = inflight[s].response.data.quote
    /\ QUOTES[Decimal(8)] # InitialQUOTES[Decimal(8)]

(***************************************************************************)
(* The scenario of the shared cache: getQuoteWithId and the cache          *)
(* endpoints use the one store `cache`.  A caller without a session sets   *)
(* the key 'quote:0' through PUT /cache/add; after the login quote 0 is    *)
(* read, or deleted.                                                       *)
(***************************************************************************)
ForgedQuote ==  \* quote 0 with the content 'forged' and the owner 'newb'
  Quote(Decimal(0), <<102, 111, 114, 103, 101, 100>>, Q0_author, Q0_date,
        S_newb)

Body_cacheAddQuoteKey ==  \* {key: 'quote:0', value: ForgedQuote}
  JObj(<<Prop(S_key, JStr(QuoteKey(JStr(Decimal(0))))),
         Prop(S_value, ForgedQuote)>>)

SharedCacheCalls ==
  { Call(S_PUT, S_cachePrefix \o S_add, Body_cacheAddQuoteKey),
    Call(S_PUT, S_cachePrefix \o S_add, Body_cacheAdd),
    Call(S_GET, S_quotesPrefix \o Decimal(0), Undefined),
    Call(S_POST, S_login, Body_login),
    Call(S_DELETE, S_quotesPrefix \o S_delete,
         WithProp(Body_deleteQuote, S_quoteId, JStr(Decimal(0)))) }

NextSharedCache ==
  \/ \E call \in SharedCacheCalls : MakeRequest("s1", call, FreshNonce, "asBuilt")
  \/ Authenticate("s1")
  \/ Authorize("s1")
  \/ Ownership("s1")
  \/ Handle("s1")
  \/ Receive("s1")

SpecSharedCache == Init /\ [][NextSharedCache]_vars

\* The quotes that are or were stored in QUOTES under the id, in a scenario
\* that adds none.
StoredUnder(id) ==
  {q[id] : q \in {q \in {QUOTES, InitialQUOTES} : id \in DOMAIN q}}

\* The step of the handler of a read returns no quote but one stored under
\* the id, and the step of the evaluator of a deletion answers from the
\* owner of a quote stored under the id.
StoredQuoteStep ==
  \A s \in Slots :
    /\ HandlerStep(s, "getQuote")
         => ("quote" \in DOMAIN inflight'[s].response.data
               => inflight'[s].response.data.quote
                    \in StoredUnder(inflight[s].route.params))
    /\ OwnsStep(s)
         => LET req == ServerRequest(inflight[s].wire, inflight[s].route.params)
                id == JsToString(GetProp(req.jsonBody, S_quoteId))
            IN inflight'[s].owned
                 = IF \E quote \in StoredUnder(id) :
                        SessionUser(s) = OwnerUserId(quote)
                     THEN "owned" ELSE "notOwned"

\* C32: getQuoteWithId(id) only ever returns a quote that is or was stored
\* in QUOTES under id: no sequence of requests to the public cache endpoint
\* PUT /cache/add, for any key including 'quote:<id>', changes what
\* GET /quotes/<id> returns or which owner the ownership evaluator sees for
\* that id.
C32_CacheEndpointApartFromQuotes == [][StoredQuoteStep]_vars

\* The key 'quote:0' was set through the cache endpoint, and the read of
\* quote 0 that followed returned the value set, with the owner 'newb',
\* while QUOTES holds quote 0 as it was.
C32_ReadReturnedCacheValue ==
  \E s \in Slots :
    /\ inflight[s] # Idle
    /\ inflight[s].pc = "done"
    /\ inflight[s].handled
    /\ inflight[s].route.endpoint = "getQuote"
    /\ inflight[s].response.data.success
    /\ inflight[s].response.data.quote = ForgedQuote
    /\ QUOTES = InitialQUOTES
    /\ nBuilt = 3

(***************************************************************************)
(* The scenario of the ownership evaluator called by itself: owns is       *)
(* applied to requests with and without an object body, for quotes of      *)
(* either owner and for a quote that is not there, without Authorization   *)
(* header, with the empty one, with the token of a session, with one that  *)
(* has expired, with one signed with another key and with a word that is   *)
(* no token; quotes are added in between.                                  *)
(***************************************************************************)
SessionClaims == [t |-> "claims", username |-> ToLowerCase(USERNAME)]

OwnsBodies ==
  { Undefined,
    Null,
    JStr(Decimal(0)),
    JObj(<<>>),
    WithProp(Body_deleteQuote, S_quoteId, JStr(Decimal(0))),
    Body_deleteQuote }

OwnsHeaders ==
  { Undefined,
    EmptyHeader,
    BearerHeader(JwtSign(SessionClaims, JWT_KEY, 0)),
    BearerHeader(JwtSign(SessionClaims, JWT_KEY, 0 - TokenLifetime)),
    BearerHeader(JwtSign(SessionClaims, API_KEY, 0)),
    BearerHeader(StrWord(S_newb)) }

\* owns(req) for a request with the body and the Authorization header.
CallOwns(s, body, header) ==
  LET req == [jsonBody |-> body, headers |-> [authorization |-> header]]
      r == Owns(req, cache, QUOTES, now)
  IN /\ \A o \in Slots : inflight[o] = Idle
     /\ cache' = r.cache
     /\ inflight' =
          [inflight EXCEPT ![s] =
             [pc |-> "done",
              route |-> [endpoint |-> "owns", params |-> <<>>],
              call |-> [body |-> body, header |-> header],
              owned |-> IF r.threw THEN "threw"
                        ELSE IF r.value THEN "owned" ELSE "notOwned",
              handled |-> FALSE,
              response |-> [status |-> DefaultStatus, data |-> [success |-> TRUE]]]]
     /\ UNCHANGED <<now, QUOTES, ledger, authToken, lastRequest, accepted,
                    nBuilt, nDelivered>>

OwnsAdds == {Call(S_PUT, S_quotesPrefix \o S_add, Body_addQuote)}

NextOwns ==
  \/ \E body \in OwnsBodies, header \in OwnsHeaders : CallOwns("s1", body, header)
  \/ \E call \in OwnsAdds : MakeRequest("s1", call, FreshNonce, "asBuilt")
  \/ Authenticate("s1")
  \/ Authorize("s1")
  \/ Handle("s1")
  \/ Receive("s1")

SpecOwns == Init /\ [][NextOwns]_vars

\* The calls of owns that have returned or thrown.
OwnsCalled ==
  {s \in Slots : inflight[s] # Idle /\ inflight[s].route.endpoint = "owns"}

\* The token of the call: what getAuthToken takes from its header.
TokenOfCall(s) ==
  GetAuthToken([headers |-> [authorization |-> inflight[s].call.header]])

\* C33: for a request with an object body and no bearer token, the ownership
\* evaluator owns returns true whatever the owner of the target quote is (a
\* caller without a token is treated as the owner); for a request whose body
\* is not an object it returns false.
C33_NoTokenOwns ==
  \A s \in OwnsCalled :
    /\ (inflight[s].call.body.t = "obj" /\ ~Truthy(TokenOfCall(s)))
         => inflight[s].owned = "owned"
    /\ inflight[s].call.body.t # "obj" => inflight[s].owned = "notOwned"

\* owns has returned true for a request without token that names quote 9,
\* which was added and belongs to 'newb'.
C33_OwnedWithoutToken ==
  \E s \in OwnsCalled :
    /\ inflight[s].call.body = Body_deleteQuote
    /\ inflight[s].call.header = EmptyHeader
    /\ inflight[s].owned = "owned"
    /\ Decimal(9) \in DOMAIN QUOTES
    /\ GetProp(QUOTES[Decimal(9)], S_ownerUserId) = JStr(S_newb)

\* C34: the ownership evaluator returns a boolean for every request and
\* never throws: in particular, for a request that bears a token which fails
\* verification (invalid or expired) it returns false.
C34_OwnsNeverThrows ==
  \A s \in OwnsCalled :
    /\ inflight[s].owned \in {"owned", "notOwned"}
    /\ (/\ Truthy(TokenOfCall(s))
        /\ VerifyToken(TokenOfCall(s), now).value = Undefined)
         => inflight[s].owned = "notOwned"

\* owns has thrown for a request that names quote 0 and bears the token of
\* a session that has expired.
C34_ThrewOnExpiredToken ==
  \E s \in OwnsCalled :
    /\ inflight[s].call.body.t = "obj"
    /\ GetProp(inflight[s].call.body, S_quoteId) = JStr(Decimal(0))
    /\ inflight[s].call.header
         = BearerHeader(JwtSign(SessionClaims, JWT_KEY, 0 - TokenLifetime))
    /\ inflight[s].owned = "threw"

(***************************************************************************)
(* The scenario of interleaved requests on quotes: after the login the     *)
(* client makes deletions of quote 8 and additions without waiting for the *)
(* answer of the request before; the server works on two requests at a     *)
(* time, each step of one between any two steps of the other.              *)
(***************************************************************************)
InterleavedCalls ==
  { Call(S_POST, S_login, Body_login),
    Call(S_DELETE, S_quotesPrefix \o S_delete,
         WithProp(Body_deleteQuote, S_quoteId, JStr(Decimal(8)))),
    Call(S_PUT, S_quotesPrefix \o S_add, Body_addQuote) }

\* makeRequest(request(...)) not awaited: the request goes out while another
\* may be in flight.
ConcurrentRequest(s, call) ==
  /\ nBuilt < MaxCalls
  /\ inflight[s] = Idle
  /\ call.path = S_login => nBuilt = 0
  /\ call.path # S_login => authToken # Undefined
  /\ inflight' =
       [inflight EXCEPT ![s] =
          Delivery(ClientRequest(call.path, call.method, call.body, FreshNonce,
                                 now, authToken), "asBuilt")]
  /\ nBuilt' = nBuilt + 1
  /\ UNCHANGED <<now, QUOTES, cache, ledger, authToken, lastRequest, accepted,
                 nDelivered>>

NextInterleaved ==
  \/ \E s \in Slots, call \in InterleavedCalls : ConcurrentRequest(s, call)
  \/ \E s \in Slots : Authenticate(s)
  \/ \E s \in Slots : Authorize(s)
  \/ \E s \in Slots : Ownership(s)
  \/ \E s \in Slots : Handle(s)
  \/ \E s \in Slots : Receive(s)

SpecInterleaved == Init /\ [][NextInterleaved]_vars

\* The quote that the evaluator of the deletion in slot s examined: owns
\* reads it through getQuoteWithId, which answers from the cache entry
\* 'quote:<id>' or leaves the quote it read from QUOTES there, and nothing
\* in this scenario removes or replaces a cache entry.
Examined(s) ==
  LET req == ServerRequest(inflight[s].wire, inflight[s].route.params)
  IN ValueForKey(cache, QuoteKey(GetProp(req.jsonBody, S_quoteId)), now)

\* The step of the handler of a deletion that removes a quote removes the
\* quote the evaluator examined.
DeleteExaminedStep ==
  \A s \in Slots :
    HandlerStep(s, "deleteQuote")
      => LET req == ServerRequest(inflight[s].wire, inflight[s].route.params)
             id == JsToString(GetProp(req.jsonBody, S_quoteId))
         IN (id \in DOMAIN QUOTES /\ id \notin DOMAIN QUOTES')
              => QUOTES[id] = Examined(s)

\* C35: for every interleaving of concurrent requests (deletes, adds and
\* reads of quotes), the quote removed by a DELETE /quotes/delete handler is
\* the same quote, with the same content and ownerUserId, that the ownership
\* evaluator of that request examined.
C35_DeletesExaminedQuote == [][DeleteExaminedStep]_vars

\* Two deletions of quote 8 are in flight at once and an addition has been
\* made meanwhile: the evaluator of the one in slot s1 was asked while the
\* quote by William Shakespeare was stored, its handler has not run yet,
\* and QUOTES holds under '8' the quote added, owned by 'newb'.
C35_ExaminedQuoteReplaced ==
  /\ inflight["s1"] # Idle
  /\ inflight["s1"].pc = "handler"
  /\ inflight["s1"].route.endpoint = "deleteQuote"
  /\ inflight["s1"].owned = "owned"
  /\ Examined("s1") = InitialQUOTES[Decimal(8)]
  /\ Decimal(8) \in DOMAIN QUOTES
  /\ GetProp(QUOTES[Decimal(8)], S_ownerUserId) = JStr(S_newb)
  /\ nBuilt = 4

(***************************************************************************)
(* The scenario of signed bodies: the client builds PUT /cache/add for     *)
(* bodies that differ in a property of a nested object, with a key that is *)
(* or is not a top-level key as well, and for bodies that differ in one    *)
(* character of a string, above U+00FF in one of them; its nonces may come *)
(* out equal.  A request built may be sent, as built.                      *)
(***************************************************************************)
SignedBodies ==
  { Body_cacheAddNested,                                 \* value: {a: 1}
    WithProp(Body_cacheAddNested, S_value,
             JObj(<<Prop(S_a, JNum(2))>>)),              \* value: {a: 2}
    Body_cacheAddKeyed,                                  \* value: {value: 1, key: 2}
    WithProp(Body_cacheAddKeyed, S_value,
             JObj(<<Prop(S_value, JNum(3)), Prop(S_key, JNum(2))>>)),
    WithProp(Body_cacheAdd, S_value, JStr(<<65>>)),      \* value: 'A'
    WithProp(Body_cacheAdd, S_value, JStr(<<321>>)),     \* value: U+0141
    WithProp(Body_cacheAdd, S_value, JStr(<<66>>)) }     \* value: 'B'

NextSignedBodies ==
  \/ \E body \in SignedBodies, nonce \in Nonces :
       /\ inflight["s1"] = Idle
       /\ Build(Call(S_PUT, S_cachePrefix \o S_add, body), nonce, 0)
  \/ Send("s1", "asBuilt")
  \/ Authenticate("s1")
  \/ Authorize("s1")
  \/ Handle("s1")
  \/ Receive("s1")

SpecSignedBodies == Init /\ [][NextSignedBodies]_vars

\* The requests agree in everything that is signed but the body.
SameButBody(a, b) ==
  /\ a.path = b.path
  /\ a.method = b.method
  /\ a.headers.nonce = b.headers.nonce
  /\ a.headers.date = b.headers.date

\* The bodies differ only in properties of one nested object, none of which
\* has a key that is a top-level key of the body too.
DifferInNestedOnly(x, y) ==
  /\ x.t = "obj" /\ y.t = "obj"
  /\ ObjectKeys(x) = ObjectKeys(y)
  /\ x # y
  /\ \E i \in DOMAIN x.v :
       /\ \A j \in DOMAIN x.v \ {i} : x.v[j] = y.v[j]
       /\ x.v[i].v.t = "obj" /\ y.v[i].v.t = "obj"
       /\ ObjectKeys(x.v[i].v) = ObjectKeys(y.v[i].v)
       /\ \A n \in DOMAIN x.v[i].v.v :
            x.v[i].v.v[n] # y.v[i].v.v[n]
              => ~HasProp(x, x.v[i].v.v[n].k)

\* C36: the body serialization that is signed contains every property of
\* the body at every nesting depth: two bodies that differ only in a
\* property of a nested object whose key is not also a top-level key of the
\* body yield different canonical messages and different signatures.
C36_NestedPropertiesSigned ==
  \A a \in accepted :
    (/\ lastRequest # Undefined
     /\ SameButBody(a.request, lastRequest)
     /\ DifferInNestedOnly(a.request.data, lastRequest.data))
      => /\ a.request.headers.signature.msg # lastRequest.headers.signature.msg
         /\ a.request.headers.signature # lastRequest.headers.signature

\* The addition with the value {a: 1} was accepted, and the request built
\* last, with the value {a: 2}, the same nonce and the same date, carries
\* the signature of the first.
C36_NestedChangeSameSignature ==
  /\ lastRequest # Undefined
  /\ GetProp(lastRequest.data, S_value) = JObj(<<Prop(S_a, JNum(2))>>)
  /\ \E a \in accepted :
       /\ a.request.data = Body_cacheAddNested
       /\ SameButBody(a.request, lastRequest)
       /\ a.request.headers.signature = lastRequest.headers.signature

\* JSON.stringify(httpBody, Object.keys(httpBody).sort()): the text of the
\* body that generateSignature encodes.
StringifiedJsonBody(httpBody) ==
  JsonStringify(httpBody, SortKeys(ObjectKeys(httpBody)))

\* The texts differ only where one has a code unit above 255 and the other
\* the code unit that is its remainder modulo 256.
DifferInHighByteOnly(s, t) ==
  /\ Len(s) = Len(t)
  /\ s # t
  /\ \A i \in DOMAIN s :
       s[i] # t[i] => \/ (s[i] > 255 /\ t[i] = s[i] % 256)
                      \/ (t[i] > 255 /\ s[i] = t[i] % 256)

\* C37: the base64 body component is injective on the serialized body text:
\* two bodies whose JSON text differs only in that one has a character with
\* code point above 255 where the other has the character equal to that
\* code point modulo 256 yield different canonical messages.
C37_Base64KeepsHighBytes ==
  \A a \in accepted :
    (/\ lastRequest # Undefined
     /\ SameButBody(a.request, lastRequest)
     /\ DifferInHighByteOnly(StringifiedJsonBody(a.request.data),
                             StringifiedJsonBody(lastRequest.data)))
      => a.request.headers.signature.msg # lastRequest.headers.signature.msg

\* The addition with the value 'A' was accepted, and the request built
\* last, with the value U+0141, the same nonce and the same date, has the
\* canonical message of the first.
C37_HighByteSameMessage ==
  /\ lastRequest # Undefined
  /\ GetProp(lastRequest.data, S_value) = JStr(<<321>>)
  /\ \E a \in accepted :
       /\ GetProp(a.request.data, S_value) = JStr(<<65>>)
       /\ SameButBody(a.request, lastRequest)
       /\ a.request.headers.signature.msg = lastRequest.headers.signature.msg

(***************************************************************************)
(* The scenario of login bodies: POST /login with the body of the test     *)
(* sequence and with objects in which username or password is missing or   *)
(* is a number.  The login has no body validator: every object passes.     *)
(***************************************************************************)
LoginBodies ==
  { Body_login,
    Body_loginInvalid,
    JObj(<<>>),
    WithoutProp(Body_login, S_username),
    WithoutProp(Body_login, S_password),
    WithProp(Body_login, S_username, JNum(1)),
    WithProp(Body_login, S_password, JNum(1)) }

NextLoginBodies ==
  \/ \E body \in LoginBodies :
       MakeRequest("s1", Call(S_POST, S_login, body), FreshNonce, "asBuilt")
  \/ Authenticate("s1")
  \/ Authorize("s1")
  \/ Handle("s1")
  \/ Receive("s1")

SpecLoginBodies == Init /\ [][NextLoginBodies]_vars

\* The step of the login handler for a body that is an object leaves a
\* response with the status 200 or 403.
LoginAnsweredStep ==
  \A s \in Slots :
    (HandlerStep(s, "login") /\ inflight[s].wire.data.t = "obj")
      => inflight'[s].response.status \in {200, 403}

\* C38: the /login handler produces a 200 or a 403 response for every
\* request whose body is a JSON object, including bodies in which username
\* or password is missing or is not a string; it never throws.
C38_LoginNeverThrows == [][LoginAnsweredStep]_vars

\* The login with a body that has the password and no username reached the
\* handler and was answered with the internal error.
C38_LoginWithoutUsernameThrew ==
  \E s \in Slots :
    /\ inflight[s] # Idle
    /\ inflight[s].pc = "done"
    /\ inflight[s].handled
    /\ inflight[s].route.endpoint = "login"
    /\ inflight[s].wire.data = WithoutProp(Body_login, S_username)
    /\ inflight[s].response = InternalErrorResponse
=============================================================================
